---------------------------- MODULE Spec2Model ----------------------------
(***************************************************************************)
(* A model of the graph-colouring engine of PY02-Coloracion_Grafos:        *)
(*   - the stochastic strategies LasVegas and MonteCarlo (BaseAlgorithm),  *)
(*     driven step by step or by BaseAlgorithm.run inside GraphWorker;     *)
(*   - the throttled publish/subscribe of StateManager;                    *)
(*   - the sessions of ColoringController / WorkerManager.                 *)
(* Time is performance.now() in milliseconds.  Date.now() timestamps of    *)
(* history records and the timeMs statistics are left out: no operation    *)
(* reads them.                                                             *)
(***************************************************************************)
EXTENDS Integers, Sequences, FiniteSets, TLC

(***************************************************************************)
(* Program constants.                                                      *)
(***************************************************************************)
\* ALGORITHM.BATCH_SIZE: run() reports progress every BATCH_SIZE attempts.
BATCH_SIZE == 50

\* JavaScript's Infinity (LasVegas.maxAttempts, bestEvaluation.conflicts):
\* a value outside the naturals, compared only through Lt and Ge below.
Infinity == -1

\* null / undefined colour of a node or of a missing key of a colour map.
NULL == "null"

\* COLOR_PALETTE.NAMES
NAMES == <<"blue", "red", "green", "yellow", "purple",
           "orange", "cyan", "magenta", "lime", "pink">>

(***************************************************************************)
(* Bounds of the model.                                                    *)
(***************************************************************************)
\* Random trials explored for a configuration with more than one colouring.
MaxTrials == 3
\* Trials explored for a configuration whose trial is deterministic
\* (one colour): long enough for two full batches and a remainder.
LongRun == 101
\* Largest palette drawn for the strategies.
MaxColors == 2
\* The clock of SpecNotify stops at this time (ms).
NotifyHorizon == 200
\* The count of delivered snapshots saturates at this value.
DeliveryCap == 3
\* The notify calls of a burst, and the time (ms) they are made within.
BurstCalls == 10
BurstSpan == 10
\* The clock of SpecBurst stops at this time (ms).
BurstHorizon == 170

(***************************************************************************)
(* Arithmetic with Infinity.                                               *)
(***************************************************************************)
\* a < b in JavaScript numbers, where either may be Infinity.
Lt(a, b) == IF a = Infinity THEN FALSE ELSE IF b = Infinity THEN TRUE ELSE a < b

\* a >= b in JavaScript numbers, where either may be Infinity.
Ge(a, b) == ~Lt(a, b)

Min(a, b) == IF a <= b THEN a ELSE b

\* A quotient kept exact: <<numerator, denominator>>.
Ratio(n, d) == <<n, d>>

(***************************************************************************)
(* Graph helpers.                                                          *)
(***************************************************************************)
Edge(s, t) == [sourceId |-> s, targetId |-> t]

\* A Graph with the given node ids and edges.
Graph(nodos, aristas) == [nodos |-> nodos, aristas |-> aristas]

\* The elements of a sequence.
Range(s) == {s[i] : i \in DOMAIN s}

\* obj[key] of a JavaScript object used as a map: undefined for a missing key.
Get(map, key) == IF key \in DOMAIN map THEN map[key] ELSE NULL

\* generarPaletaColores: NAMES.slice(0, numeroColores)
generarPaletaColores(numeroColores) ==
    SubSeq(NAMES, 1, Min(IF numeroColores < 0 THEN Len(NAMES) + numeroColores
                         ELSE numeroColores, Len(NAMES)))

\* evaluarColoracion's test of one edge.
EdgeConflict(arista, mapaColores) ==
    LET primerColor == Get(mapaColores, arista.sourceId)
        segundoColor == Get(mapaColores, arista.targetId)
    IN primerColor # NULL /\ segundoColor # NULL /\ primerColor = segundoColor

\* What evaluarColoracion returns for the conflicting edges it collected.
Evaluation(aristasConflicto) ==
    [conflicts |-> Len(aristasConflicto),
     conflictEdges |-> [i \in DOMAIN aristasConflicto |->
         Edge(aristasConflicto[i].sourceId, aristasConflicto[i].targetId)]]

\* evaluarColoracion(aristas, mapaColores)
evaluarColoracion(aristas, mapaColores) ==
    Evaluation(SelectSeq(aristas, LAMBDA arista : EdgeConflict(arista, mapaColores)))

\* The colourings coloracionAleatoria can return: one palette colour per node,
\* undefined for every node when the palette is empty.
coloracionAleatoria(nodos, coloresDisponibles) ==
    IF coloresDisponibles = <<>> THEN {[n \in Range(nodos) |-> NULL]}
    ELSE [Range(nodos) -> Range(coloresDisponibles)]


(***************************************************************************)
(* State.                                                                  *)
(***************************************************************************)
VARIABLES
    \* --- the strategy instance and its driver (GraphWorker, or a caller
    \*     of step()) ---
    algo,                \* the LasVegas / MonteCarlo instance (this)
    lastStepResult,      \* what the last step() returned
    ultimoIndiceEnviado, \* GraphWorker: history index already sent
    wpc,                 \* where the driver is
    outbox,              \* messages posted by the worker, not yet handled
    lastProgressAttempts,\* attempts of the run's last progress message
    \* --- the main thread ---
    host,                \* graph, StateManager, WorkerManager, timers, clock
    burst                \* the notify calls of a burst made so far

workerVars == <<algo, lastStepResult, ultimoIndiceEnviado, wpc, outbox,
                lastProgressAttempts>>

vars == <<workerVars, host, burst>>

(***************************************************************************)
(* BaseAlgorithm, MonteCarlo, LasVegas.                                    *)
(***************************************************************************)
\* No instance constructed (yet).
NoAlgo == [class |-> "none"]

NoResult == [done |-> FALSE, colors |-> <<>>, conflictEdges |-> <<>>,
             stats |-> [attempts |-> 0],
             currentAttempt |-> [conflicts |-> 0, success |-> FALSE]]

\* BaseAlgorithm constructor
BaseAlgorithm(graph, options) ==
    [nodes |-> graph.nodos,
     edges |-> graph.aristas,
     numberOfColors |-> options.numberOfColors,
     availableColors |-> generarPaletaColores(options.numberOfColors),
     attempts |-> 0,
     totalConflicts |-> 0,
     successCount |-> 0,
     bestColors |-> <<>>,
     bestEvaluation |-> [conflicts |-> Infinity, conflictEdges |-> <<>>],
     finished |-> FALSE,
     attemptsHistory |-> <<>>]

\* MonteCarlo constructor
MonteCarlo(graph, options) ==
    BaseAlgorithm(graph, options)
        @@ [class |-> "MonteCarlo", iterations |-> options.iterations]

\* LasVegas constructor
LasVegas(graph, options) ==
    BaseAlgorithm(graph, options)
        @@ [class |-> "LasVegas", maxAttempts |-> options.maxAttempts]

\* obtenerMaximoIntentos
obtenerMaximoIntentos(a) ==
    IF a.class = "MonteCarlo" THEN a.iterations ELSE a.maxAttempts

\* calculateProgress: attempts / cap as an exact quotient (0/0 is NaN).
calculateProgress(a) ==
    IF a.class = "MonteCarlo"
    THEN (IF a.iterations > 0 THEN Ratio(a.attempts, a.iterations) ELSE Ratio(0, 1))
    ELSE (IF a.maxAttempts = Infinity THEN Ratio(0, 1)
          ELSE Ratio(a.attempts, a.maxAttempts))

\* updateStatistics
updateStatistics(a, conflicts, success) ==
    [a EXCEPT !.attempts = @ + 1,
              !.totalConflicts = @ + conflicts,
              !.successCount = IF success THEN @ + 1 ELSE @]

\* A variant of guardarIntentoEnHistorial that keeps one record per conflict
\* count: a record with the conflicts of the last one replaces it.
guardarIntentoDistinto(a, conflictos, exito) ==
    [a EXCEPT !.attemptsHistory =
        (IF @ # <<>> /\ @[Len(@)].conflicts = conflictos THEN SubSeq(@, 1, Len(@) - 1) ELSE @)
            \o <<[attemptNumber |-> a.attempts, conflicts |-> conflictos, success |-> exito]>>]

\* guardarIntentoEnHistorial
guardarIntentoEnHistorial(a, conflictos, exito) ==
    [a EXCEPT !.attemptsHistory = Append(@,
        [attemptNumber |-> a.attempts, conflicts |-> conflictos, success |-> exito])]

\* A variant of actualizarMejorSolucion that keeps the last trial.
actualizarUltimaSolucion(a, colores, conflictos, aristasConflicto) ==
    [a EXCEPT !.bestEvaluation =
                  [conflicts |-> conflictos, conflictEdges |-> aristasConflicto],
              !.bestColors = colores]

\* actualizarMejorSolucion
actualizarMejorSolucion(a, colores, conflictos, aristasConflicto) ==
    IF Lt(conflictos, a.bestEvaluation.conflicts)
    THEN [a EXCEPT !.bestEvaluation =
                       [conflicts |-> conflictos, conflictEdges |-> aristasConflicto],
                   !.bestColors = colores]
    ELSE a

\* calcularEstadisticasAlgoritmo
calcularEstadisticasAlgoritmo(intentos, conteoExitos, totalConflictos, mejoresConflictos, maxIntentos) ==
    [attempts |-> intentos,
     conflicts |-> IF mejoresConflictos = Infinity THEN 0 ELSE mejoresConflictos,
     meanConflicts |-> IF intentos > 0 THEN Ratio(totalConflictos, intentos)
                       ELSE Ratio(0, 1),
     successRate |-> IF intentos > 0 THEN Ratio(conteoExitos, intentos)
                     ELSE Ratio(0, 1),
     progress |-> IF maxIntentos = Infinity THEN Ratio(0, 1)
                  ELSE IF maxIntentos > 0
                       THEN Ratio(Min(intentos, maxIntentos), maxIntentos)
                       ELSE Ratio(1, 1)]

\* The statistics of instance a, as both step() methods compute them.
StatsOf(a) ==
    calcularEstadisticasAlgoritmo(a.attempts, a.successCount, a.totalConflicts,
                                  a.bestEvaluation.conflicts, obtenerMaximoIntentos(a))

\* What step() returns for instance a after a trial (or none) with the given
\* conflict count and success flag: the best result known so far.
StepReturn(a, conflicts, success) ==
    [algo |-> a,
     result |-> [done |-> a.finished \/ Ge(a.attempts, obtenerMaximoIntentos(a)),
                 colors |-> a.bestColors,
                 conflictEdges |-> a.bestEvaluation.conflictEdges,
                 stats |-> StatsOf(a),
                 currentAttempt |-> [conflicts |-> conflicts, success |-> success]]]

\* The early return of step(): the instance is finished or at its cap.
FinishedResult(a) ==
    [algo |-> [a EXCEPT !.finished = TRUE],
     result |-> [done |-> TRUE,
                 colors |-> a.bestColors,
                 conflictEdges |-> a.bestEvaluation.conflictEdges,
                 stats |-> StatsOf(a),
                 currentAttempt |-> [conflicts |-> a.bestEvaluation.conflicts,
                                     success |-> a.bestEvaluation.conflicts = 0]]]

\* A variant of the guard that also ends the run after a success.
MonteCarloAtEndOnSuccess(a) ==
    a.finished \/ a.successCount > 0 \/ Ge(a.attempts, a.iterations)

\* MonteCarlo.step's guard of the early return
MonteCarloAtEnd(a) == a.finished \/ Ge(a.attempts, a.iterations)

\* A variant of MonteCarloBest that also takes a trial as good as the best.
MonteCarloBestOrEqual(a, colors, evalResult) ==
    IF Lt(a.bestEvaluation.conflicts, evalResult.conflicts) THEN a
    ELSE [a EXCEPT !.bestEvaluation = [conflicts |-> evalResult.conflicts,
                                       conflictEdges |-> evalResult.conflictEdges],
                   !.bestColors = colors]

\* MonteCarlo.step: "if (conflicts < this.bestEvaluation.conflicts)" around
\* actualizarMejorSolucion
MonteCarloBest(a, colors, evalResult) ==
    IF Lt(evalResult.conflicts, a.bestEvaluation.conflicts)
    THEN actualizarMejorSolucion(a, colors, evalResult.conflicts,
                                 evalResult.conflictEdges)
    ELSE a

\* MonteCarlo.step after the early return: one trial, evaluated as evalResult
MonteCarloTrial(a, colors, evalResult) ==
    StepReturn(
        MonteCarloBest(
            guardarIntentoEnHistorial(
                updateStatistics(a, evalResult.conflicts, evalResult.conflicts = 0),
                evalResult.conflicts, evalResult.conflicts = 0),
            colors, evalResult),
        evalResult.conflicts, evalResult.conflicts = 0)

\* MonteCarlo.step, with colors the colouring coloracionAleatoria drew
MonteCarloStep(a, colors) ==
    IF MonteCarloAtEnd(a) THEN FinishedResult(a)
    ELSE MonteCarloTrial(a, colors, evaluarColoracion(a.edges, colors))

\* LasVegas.step's guard of the early return
LasVegasAtEnd(a) == a.finished \/ Ge(a.attempts, a.maxAttempts)

\* A variant that ends the run after any trial.
LasVegasFinishAlways(a, success) == [a EXCEPT !.finished = TRUE]

\* A variant that never ends the run on a success.
LasVegasFinishNever(a, success) == a

\* LasVegas.step: "if (attempt.success) this.finished = true"
LasVegasFinish(a, success) ==
    IF success THEN [a EXCEPT !.finished = TRUE] ELSE a

\* LasVegas.step after the early return: one trial, evaluated as evalResult
LasVegasTrial(a, colors, evalResult) ==
    StepReturn(
        LasVegasFinish(
            actualizarMejorSolucion(
                guardarIntentoEnHistorial(
                    updateStatistics(a, evalResult.conflicts, evalResult.conflicts = 0),
                    evalResult.conflicts, evalResult.conflicts = 0),
                colors, evalResult.conflicts, evalResult.conflictEdges),
            evalResult.conflicts = 0),
        evalResult.conflicts, evalResult.conflicts = 0)

\* LasVegas.step, with colors the colouring coloracionAleatoria drew
LasVegasStep(a, colors) ==
    IF LasVegasAtEnd(a) THEN FinishedResult(a)
    ELSE LasVegasTrial(a, colors, evaluarColoracion(a.edges, colors))

\* step() of the instance's class
Step(a, colors) ==
    IF a.class = "MonteCarlo" THEN MonteCarloStep(a, colors) ELSE LasVegasStep(a, colors)

\* Whether the next step() of a draws a colouring.
AtEnd(a) == IF a.class = "MonteCarlo" THEN MonteCarloAtEnd(a) ELSE LasVegasAtEnd(a)

\* The number of trials explored for instance a.
TrialBound(a) ==
    IF Cardinality(coloracionAleatoria(a.nodes, a.availableColors)) = 1
    THEN LongRun ELSE MaxTrials

\* The colourings the next step() of a may draw (none is drawn at the end).
Draws(a) ==
    IF AtEnd(a) THEN {<<>>}
    ELSE IF a.attempts < TrialBound(a)
         THEN coloracionAleatoria(a.nodes, a.availableColors)
         ELSE {}

(***************************************************************************)
(* BaseAlgorithm.run inside GraphWorker's message handler.                 *)
(***************************************************************************)
\* run(): whether this iteration calls progressCallback
shouldReportProgress(a, stepResult) ==
    (a.attempts % BATCH_SIZE = 0) \/ stepResult.done

\* A variant of the colorProgress message whose attempts field counts the
\* attempts made since the message before.
ProgressMessageDelta(a, stepResult, ultimoIndice) ==
    [type |-> "colorProgress",
     progress |-> calculateProgress(a),
     attempts |-> a.attempts - ultimoIndice,
     conflicts |-> stepResult.stats.conflicts,
     colors |-> stepResult.colors,
     conflictEdges |-> stepResult.conflictEdges,
     meanConflicts |-> stepResult.stats.meanConflicts,
     successRate |-> stepResult.stats.successRate,
     newAttempts |-> SubSeq(a.attemptsHistory, ultimoIndice + 1,
                            Len(a.attemptsHistory))]

\* A variant of the colorProgress message that carries the whole history.
ProgressMessageFull(a, stepResult, ultimoIndice) ==
    [type |-> "colorProgress",
     progress |-> calculateProgress(a),
     attempts |-> a.attempts,
     conflicts |-> stepResult.stats.conflicts,
     colors |-> stepResult.colors,
     conflictEdges |-> stepResult.conflictEdges,
     meanConflicts |-> stepResult.stats.meanConflicts,
     successRate |-> stepResult.stats.successRate,
     newAttempts |-> a.attemptsHistory]

\* GraphWorker's progressCallback: the colorProgress message it posts
ProgressMessage(a, stepResult, ultimoIndice) ==
    [type |-> "colorProgress",
     progress |-> calculateProgress(a),
     attempts |-> a.attempts,
     conflicts |-> stepResult.stats.conflicts,
     colors |-> stepResult.colors,
     conflictEdges |-> stepResult.conflictEdges,
     meanConflicts |-> stepResult.stats.meanConflicts,
     successRate |-> stepResult.stats.successRate,
     newAttempts |-> SubSeq(a.attemptsHistory, ultimoIndice + 1,
                            Len(a.attemptsHistory))]

\* GraphWorker: the colorComplete message posted after run() returned
CompleteMessage(a, stepResult) ==
    [type |-> "colorComplete",
     algorithm |-> IF a.class = "LasVegas" THEN "Las Vegas" ELSE "Monte Carlo",
     result |-> [colors |-> stepResult.colors,
                 conflictEdges |-> stepResult.conflictEdges,
                 stats |-> [attempts |-> stepResult.stats.attempts,
                            conflicts |-> stepResult.stats.conflicts,
                            meanConflicts |-> stepResult.stats.meanConflicts,
                            successRate |-> stepResult.stats.successRate],
                 attemptsHistory |-> a.attemptsHistory]]

\* GraphWorker self.onmessage: the Graph and the instance built for a message
NewAlgorithm(message) ==
    IF message.type = "colorLasVegas"
    THEN LasVegas(Graph(message.data.graph.nodes, message.data.graph.edges),
                  message.data.options)
    ELSE MonteCarlo(Graph(message.data.graph.nodes, message.data.graph.edges),
                    message.data.options)

\* GraphWorker self.onmessage, up to the call of run(): the instance is built.
WorkerBegin(message) ==
    /\ algo' = NewAlgorithm(message)
    /\ lastStepResult' = NoResult
    /\ ultimoIndiceEnviado' = 0
    /\ lastProgressAttempts' = -1
    /\ wpc' = "run"

\* run()'s loop after a step() that returned r: the progress callback posts
\* the messages posted (one if it is due, else none).
Iterated(r, posted) ==
    /\ algo' = r.algo
    /\ lastStepResult' = r.result
    /\ outbox' = outbox \o posted
    /\ ultimoIndiceEnviado' = IF posted # <<>> THEN Len(r.algo.attemptsHistory)
                              ELSE ultimoIndiceEnviado
    /\ lastProgressAttempts' = IF posted # <<>> THEN posted[1].attempts
                               ELSE lastProgressAttempts
    /\ wpc' = IF r.result.done THEN "returned" ELSE "run"
    /\ UNCHANGED <<host, burst>>

\* One iteration of run()'s loop: step(), then the progress callback if due.
RunIteration ==
    /\ wpc = "run"
    /\ \E colors \in Draws(algo) : \E r \in {Step(algo, colors)} :
           Iterated(r, IF shouldReportProgress(r.algo, r.result)
                       THEN <<ProgressMessage(r.algo, r.result, ultimoIndiceEnviado)>>
                       ELSE <<>>)

\* What the iterations of run()'s loop from instance a up to the next call
\* of the progress callback can leave: the instance and the step result.
RECURSIVE Batch(_)
Batch(a) ==
    UNION {IF shouldReportProgress(r.algo, r.result) THEN {r} ELSE Batch(r.algo) :
               r \in {Step(a, colors) : colors \in Draws(a)}}

\* run() iterates until it has called the progress callback.
RunBatch ==
    /\ wpc = "run"
    /\ \E r \in Batch(algo) :
           Iterated(r, <<ProgressMessage(r.algo, r.result, ultimoIndiceEnviado)>>)

\* run() returned: the handler posts colorComplete and ends.
PostComplete ==
    /\ wpc = "returned"
    /\ outbox' = Append(outbox, CompleteMessage(algo, lastStepResult))
    /\ wpc' = "idle"
    /\ UNCHANGED <<algo, lastStepResult, ultimoIndiceEnviado, lastProgressAttempts,
                   host, burst>>

\* GraphWorker self.onmessage, the catch clause: run() threw, the handler
\* posts an error message and ends.
PostError ==
    /\ wpc = "run"
    /\ outbox' = Append(outbox, [type |-> "error", error |-> "message"])
    /\ wpc' = "idle"
    /\ UNCHANGED <<algo, lastStepResult, ultimoIndiceEnviado, lastProgressAttempts,
                   host, burst>>

\* A caller invokes step() on the instance directly (also after done).
DirectStep ==
    /\ wpc = "direct"
    /\ \E colors \in Draws(algo) : \E r \in {Step(algo, colors)} :
         /\ algo' = r.algo
         /\ lastStepResult' = r.result
    /\ UNCHANGED <<ultimoIndiceEnviado, wpc, outbox, lastProgressAttempts,
                   host, burst>>

(***************************************************************************)
(* The main thread: Graph, StateManager, timers.                           *)
(***************************************************************************)
\* StateManager.notify: a notification closer than this (ms) to the last
\* delivered one is deferred.
NOTIFY_WINDOW == 50

\* StateManager.notify: the delay (ms) of the deferred notification.
NOTIFY_DELAY == 50

\* GRAPH_CONSTRAINTS.DEFAULT_COLORS
DEFAULT_COLORS == 3

\* _ultimaNotificacion = null (performance.now() is positive).
NEVER == 0

\* coloringStats = null
NoStats == [algorithm |-> NULL]

\* A timer handle that is null.
NoTimer == [kind |-> NULL, due |-> 0, session |-> 0, data |-> <<>>]

\* The handle setTimeout / setInterval returns for a callback of the given
\* kind that is due at the given time.
Timer(kind, due, session, data) ==
    [kind |-> kind, due |-> due, session |-> session, data |-> data]

\* Whether a pending callback is the one a handle names: the notification
\* of StateManager (session 0), or the callback a session set.
SameTimer(timer, handle) ==
    timer.kind = handle.kind /\ timer.session = handle.session

\* The index of the first callback of s that handle names (0: none).
IndexOf(s, handle) ==
    IF \E i \in DOMAIN s : SameTimer(s[i], handle)
    THEN CHOOSE i \in DOMAIN s :
             SameTimer(s[i], handle) /\ \A j \in 1 .. (i - 1) : ~SameTimer(s[j], handle)
    ELSE 0

\* s without its element at index i (s itself for i = 0).
RemoveAt(s, i) ==
    IF i = 0 THEN s ELSE SubSeq(s, 1, i - 1) \o SubSeq(s, i + 1, Len(s))

\* dynamicRun = null (0: no session, no callback).
NoRun == [running |-> FALSE, session |-> 0, timerId |-> NoTimer, onComplete |-> FALSE]

\* The session whose start or handler built a stats object (0: a caller of
\* StateManager).
SessionOf(stats) == IF "session" \in DOMAIN stats THEN stats.session ELSE 0

\* A node of the live graph.
Node(id, color) == [id |-> id, color |-> color]

\* crearMapaNodos + the colour of each node: nodeId -> color
ColorMap(nodos) ==
    [id \in {nodos[i].id : i \in DOMAIN nodos} |->
        nodos[CHOOSE i \in DOMAIN nodos : nodos[i].id = id].color]

\* crearMapaNodos: new Map(nodos.map(n => [n.id, n])), the last node of an id
crearMapaNodos(nodos) ==
    [id \in {nodos[i].id : i \in DOMAIN nodos} |->
        nodos[CHOOSE i \in DOMAIN nodos :
                  nodos[i].id = id /\ \A j \in DOMAIN nodos : nodos[j].id = id => j <= i]]

\* A variant of esConflicto that compares the colours of the two nodes only.
esMismoColor(arista, nodoMap) ==
    /\ arista.sourceId \in DOMAIN nodoMap
    /\ arista.targetId \in DOMAIN nodoMap
    /\ nodoMap[arista.sourceId].color = nodoMap[arista.targetId].color

\* esConflicto(arista, nodoMap)
esConflicto(arista, nodoMap) ==
    /\ arista.sourceId \in DOMAIN nodoMap
    /\ arista.targetId \in DOMAIN nodoMap
    /\ nodoMap[arista.sourceId].color # NULL
    /\ nodoMap[arista.targetId].color # NULL
    /\ nodoMap[arista.sourceId].color = nodoMap[arista.targetId].color

\* The {sourceId, targetId} objects obtenerAristasConflicto maps edges to.
EdgeObjects(aristas) ==
    [i \in DOMAIN aristas |-> Edge(aristas[i].sourceId, aristas[i].targetId)]

\* obtenerAristasConflicto(nodos, aristas)
obtenerAristasConflicto(nodos, aristas) ==
    EdgeObjects(SelectSeq(aristas, LAMBDA arista : esConflicto(arista, crearMapaNodos(nodos))))

\* What the constructors of GraphController leave, with one listener
\* subscribed: the state of the main thread on the given graph at time t.
NewHost(graph, t) ==
    [now |-> t,
     graph |-> graph,
     \* StateManager
     coloringStats |-> NoStats,
     conflictEdges |-> <<>>,
     numColors |-> DEFAULT_COLORS,
     attemptsHistory |-> <<>>,
     hasManualChanges |-> FALSE,
     hasColoredGraph |-> FALSE,
     ultimaNotificacion |-> NEVER,
     notificacionPendiente |-> NoTimer,
     \* pending setTimeout / setInterval callbacks, in the order they were set
     timers |-> <<>>,
     \* the listener: the snapshot it was passed last, when, how long after
     \* the one before (-1: there was none), and how many it was passed
     snapshot |-> [coloringStats |-> NoStats, conflictEdges |-> <<>>,
                   nodos |-> graph.nodos, aristas |-> graph.aristas,
                   attemptsHistory |-> <<>>, hasManualChanges |-> FALSE,
                   hasColoredGraph |-> FALSE],
     lastDelivery |-> NEVER,
     lastGap |-> -1,
     deliveries |-> 0,
     \* whether a notification was deferred and none delivered since
     unserved |-> FALSE,
     \* whether the times and the count of the deliveries are recorded
     metered |-> TRUE,
     \* the stats of the last non-null coloringStats the listener was passed
     seen |-> [session |-> 0, attempts |-> 0],
     \* the final stats of a finished run the listener was not passed yet
     finalStats |-> NoStats,
     \* ColoringController / WorkerManager
     dynamicRun |-> NoRun,
     onNoSolutionFoundCallback |-> 0,
     worker |-> 0,
     workerRunning |-> FALSE,
     \* the Workers constructed and not terminated, those whose script
     \* failed, the messages posted to this.worker it has not received, and
     \* the Worker (and its session) whose thread the worker variables are
     workers |-> {},
     failed |-> {},
     toWorker |-> <<>>,
     thread |-> [worker |-> 0, session |-> 0],
     \* the sessions started so far, the one started and neither stopped
     \* nor finished (0: none), and the session of the handler (tick or
     \* worker message) that wrote the state last
     sessions |-> 0,
     active |-> 0,
     published |-> [session |-> 0, flip |-> FALSE],
     \* the edits and stops the user made so far
     edits |-> 0]

\* StateManager.getSnapshot
getSnapshot(h) ==
    [nodos |-> h.graph.nodos,
     aristas |-> h.graph.aristas,
     coloringStats |-> h.coloringStats,
     conflictEdges |-> h.conflictEdges,
     attemptsHistory |-> h.attemptsHistory,
     hasManualChanges |-> h.hasManualChanges,
     hasColoredGraph |-> h.hasColoredGraph]

\* A variant of clearTimeout that leaves the callback pending.
clearTimeoutNot(h, handle) == h

\* clearTimeout(handle) / clearInterval(handle)
clearTimeout(h, handle) ==
    [h EXCEPT !.timers = RemoveAt(@, IndexOf(@, handle))]

\* StateManager.notify, deferring branch: the pending callback is cleared and
\* a new one set.
Defer(h) ==
    [clearTimeout(h, h.notificacionPendiente) EXCEPT
        !.notificacionPendiente = Timer("notify", h.now + NOTIFY_DELAY, 0, <<>>),
        !.timers = Append(@, Timer("notify", h.now + NOTIFY_DELAY, 0, <<>>)),
        !.unserved = TRUE]

\* StateManager.notify, delivering branch: "for (const listener of
\* this.listeners) listener(snapshot)"
Deliver(h) ==
    [h EXCEPT !.snapshot = getSnapshot(h),
              !.lastGap = IF ~h.metered THEN @
                          ELSE IF h.lastDelivery = NEVER THEN -1 ELSE h.now - h.lastDelivery,
              !.lastDelivery = IF h.metered THEN h.now ELSE @,
              !.deliveries = IF h.metered THEN Min(@ + 1, DeliveryCap) ELSE @,
              !.unserved = FALSE,
              !.seen = IF h.coloringStats = NoStats THEN @
                       ELSE [session |-> SessionOf(h.coloringStats),
                             attempts |-> h.coloringStats.attempts],
              !.finalStats = IF @ = h.coloringStats THEN NoStats ELSE @]

\* StateManager.notify, delivering branch up to getSnapshot()
Refresh(h) ==
    [h EXCEPT !.ultimaNotificacion = h.now,
              !.conflictEdges = IF h.hasColoredGraph
                                THEN obtenerAristasConflicto(h.graph.nodos, h.graph.aristas)
                                ELSE @]

\* StateManager.notify(force)
notify(h, force) ==
    IF ~force /\ h.ultimaNotificacion # NEVER
              /\ h.now - h.ultimaNotificacion < NOTIFY_WINDOW
    THEN Defer(h)
    ELSE Deliver(Refresh(h))

\* StateManager.setColoringStats
setColoringStats(h, stats) == [h EXCEPT !.coloringStats = stats]

\* StateManager.setConflictEdges
setConflictEdges(h, conflictEdges) == [h EXCEPT !.conflictEdges = conflictEdges]

\* StateManager.setAttemptsHistory
setAttemptsHistory(h, history) ==
    IF Len(history) = 0 /\ h.notificacionPendiente # NoTimer
    THEN [clearTimeout(h, h.notificacionPendiente) EXCEPT
             !.attemptsHistory = history,
             !.notificacionPendiente = NoTimer,
             !.ultimaNotificacion = NEVER]
    ELSE [h EXCEPT !.attemptsHistory = history]

\* The callback of the deferred notification:
\* "this._notificacionPendiente = null; this.notify(true)"
NotifyCallback(h, timer) ==
    notify([clearTimeout(h, timer) EXCEPT !.notificacionPendiente = NoTimer], TRUE)

\* The timers of h that are due.
DueTimers(h, kind) ==
    {h.timers[i] : i \in {j \in DOMAIN h.timers :
                            h.timers[j].kind = kind /\ h.timers[j].due <= h.now}}

(***************************************************************************)
(* Actions of the main thread that involve StateManager alone.             *)
(***************************************************************************)
\* d ms pass, up to the horizon.
Advance(d, horizon) ==
    /\ host.now + d <= horizon
    /\ host' = [host EXCEPT !.now = @ + d]
    /\ UNCHANGED <<workerVars, burst>>

\* The deferred notification fires.
FireNotify ==
    /\ \E timer \in DueTimers(host, "notify") : host' = NotifyCallback(host, timer)
    /\ UNCHANGED <<workerVars, burst>>

\* A caller invokes StateManager.notify(force).
CallNotify(force) ==
    /\ host' = notify(host, force)
    /\ UNCHANGED <<workerVars, burst>>

\* A caller invokes StateManager.setColoringStats(stats).
CallSetColoringStats(stats) ==
    /\ host' = setColoringStats(host, stats)
    /\ UNCHANGED <<workerVars, burst>>

\* A caller invokes StateManager.setAttemptsHistory(history).
CallSetAttemptsHistory(history) ==
    /\ host' = setAttemptsHistory(host, history)
    /\ UNCHANGED <<workerVars, burst>>

(***************************************************************************)
(* SpecNotify: StateManager under arbitrary calls of notify,               *)
(* setColoringStats and setAttemptsHistory, as time passes.                *)
(***************************************************************************)
\* The stats objects callers set.
SomeStats ==
    {NoStats, [algorithm |-> "Monte Carlo", isRunning |-> TRUE, attempts |-> 0]}

\* The histories callers set.
SomeHistories ==
    {<<>>, <<[attemptNumber |-> 1, conflicts |-> 0, success |-> TRUE]>>}

\* The lapses of time between two events.
Lapses == {10, 50}

NoBurst == [calls |-> 0, first |-> 0, last |-> 0, open |-> FALSE]

InitNotify ==
    /\ host = NewHost(Graph(<<>>, <<>>), 100)
    /\ burst = NoBurst
    /\ algo = NoAlgo
    /\ lastStepResult = NoResult
    /\ ultimoIndiceEnviado = 0
    /\ lastProgressAttempts = -1
    /\ wpc = "idle"
    /\ outbox = <<>>

NextNotify ==
    \/ \E d \in Lapses : Advance(d, NotifyHorizon)
    \/ FireNotify
    \/ \E force \in BOOLEAN : CallNotify(force)
    \/ \E stats \in SomeStats : CallSetColoringStats(stats)
    \/ \E history \in SomeHistories : CallSetAttemptsHistory(history)

SpecNotify == InitNotify /\ [][NextNotify]_vars

(***************************************************************************)
(* SpecBurst: BurstCalls plain notify calls, each after a change of the    *)
(* state, within BurstSpan ms, on a StateManager with no notification      *)
(* pending; then time passes.                                              *)
(***************************************************************************)
\* The state a caller sets before its k-th notify call.
BurstStats(k) == [algorithm |-> "Monte Carlo", isRunning |-> TRUE, attempts |-> k]

\* Whether a plain notify call made now is delivered at once.
WindowOpen(h) ==
    h.ultimaNotificacion = NEVER \/ h.now - h.ultimaNotificacion >= NOTIFY_WINDOW

\* A caller sets the state and calls notify().
BurstNotify ==
    /\ burst.calls < BurstCalls
    /\ host' = notify(setColoringStats(host, BurstStats(burst.calls + 1)), FALSE)
    /\ burst' = [calls |-> burst.calls + 1,
                 first |-> IF burst.calls = 0 THEN host.now ELSE burst.first,
                 last |-> host.now,
                 open |-> burst.open \/ WindowOpen(host)]
    /\ UNCHANGED workerVars

\* d ms pass: between the calls of the burst no more than leaves it within
\* BurstSpan.
Pause(d) ==
    /\ burst.calls > 0
    /\ burst.calls < BurstCalls => host.now + d - burst.first <= BurstSpan
    /\ Advance(d, BurstHorizon)

\* The lapses of time between two events of SpecBurst.
BurstLapses == {5, 50}

\* How long before the burst the last snapshot was delivered (NEVER: none).
BurstAges == {NEVER, 5, 45, 60}

InitBurst ==
    /\ \E age \in BurstAges :
         host = [NewHost(Graph(<<>>, <<>>), 100) EXCEPT
                    !.ultimaNotificacion = IF age = NEVER THEN NEVER ELSE 100 - age,
                    !.lastDelivery = IF age = NEVER THEN NEVER ELSE 100 - age]
    /\ burst = NoBurst
    /\ algo = NoAlgo
    /\ lastStepResult = NoResult
    /\ ultimoIndiceEnviado = 0
    /\ lastProgressAttempts = -1
    /\ wpc = "idle"
    /\ outbox = <<>>

NextBurst ==
    \/ BurstNotify
    \/ \E d \in BurstLapses : Pause(d)
    \/ FireNotify

SpecBurst == InitBurst /\ [][NextBurst]_vars

(***************************************************************************)
(* StateManager with its Set of listeners.                                 *)
(***************************************************************************)
\* The listeners that subscribe, and the calls they and the callers make.
MaxListeners == 2
SubscribeOps == 5
\* The clock of SpecSubscribe stops at this time (ms).
SubscribeHorizon == 200

\* What a listener was passed so far: how many snapshots, and the last.
NoInbox == [count |-> 0, snapshot |-> <<>>]

\* "listener(snapshot)"
Receive(box, snapshot) == [count |-> box.count + 1, snapshot |-> snapshot]

\* The state of the main thread with the Set this.listeners (in insertion
\* order, empty after construction), what each listener was passed, the
\* listeners whose unsubscribe function was called since they subscribed
\* last, those that unsubscribed while a notification was deferred, and the
\* counts of the loops over the listeners and of the calls made.
SubscriberHost(graph, t) ==
    [listeners |-> <<>>,
     inbox |-> [listener \in 1 .. MaxListeners |-> NoInbox],
     unsubscribed |-> {},
     leftPending |-> {},
     flushes |-> 0,
     ops |-> 0] @@ NewHost(graph, t)

\* StateManager.subscribe(listener)
subscribe(h, listener) ==
    [h EXCEPT !.listeners = IF listener \in Range(@) THEN @ ELSE Append(@, listener),
              !.inbox[listener] = Receive(@, getSnapshot(h)),
              !.unsubscribed = @ \ {listener}]

\* A variant of unsubscribe that leaves the listener in the Set.
unsubscribeNot(h, listener) ==
    [h EXCEPT !.unsubscribed = @ \cup {listener},
              !.leftPending = IF h.notificacionPendiente # NoTimer
                              THEN @ \cup {listener} ELSE @]

\* The function subscribe returned: "this.listeners.delete(listener)"
unsubscribe(h, listener) ==
    [h EXCEPT !.listeners = SelectSeq(@, LAMBDA other : other # listener),
              !.unsubscribed = @ \cup {listener},
              !.leftPending = IF h.notificacionPendiente # NoTimer
                              THEN @ \cup {listener} ELSE @]

\* StateManager.notify, delivering branch: "for (const listener of
\* this.listeners) listener(snapshot)", each listener of the Set
DeliverAll(h) ==
    [Deliver(h) EXCEPT
        !.flushes = @ + 1,
        !.inbox = [listener \in DOMAIN @ |->
                      IF listener \in Range(h.listeners)
                      THEN Receive(@[listener], getSnapshot(h)) ELSE @[listener]]]

\* StateManager.notify(force), with the Set of listeners
notifyListeners(h, force) ==
    IF ~force /\ h.ultimaNotificacion # NEVER
              /\ h.now - h.ultimaNotificacion < NOTIFY_WINDOW
    THEN Defer(h)
    ELSE DeliverAll(Refresh(h))

\* The callback of the deferred notification, with the Set of listeners
ListenersCallback(h, timer) ==
    notifyListeners([clearTimeout(h, timer) EXCEPT !.notificacionPendiente = NoTimer], TRUE)

(***************************************************************************)
(* SpecSubscribe: listeners subscribe and unsubscribe while callers change *)
(* the state and call notify, as time passes.                              *)
(***************************************************************************)
\* A call is made, which leaves state h.
SubscriberStep(h) ==
    /\ host.ops < SubscribeOps
    /\ host' = [h EXCEPT !.ops = @ + 1]
    /\ UNCHANGED <<workerVars, burst>>

\* A component subscribes a listener.
Subscribe == \E listener \in 1 .. MaxListeners : SubscriberStep(subscribe(host, listener))

\* A component calls the function a subscribe call of the listener returned.
Unsubscribe ==
    \E listener \in 1 .. MaxListeners :
        /\ host.inbox[listener].count > 0
        /\ SubscriberStep(unsubscribe(host, listener))

\* A caller sets the state and calls notify(force).
Change ==
    \E force \in BOOLEAN :
        SubscriberStep(notifyListeners(setColoringStats(host, BurstStats(host.ops + 1)), force))

\* The deferred notification fires.
FireFlush ==
    /\ \E timer \in DueTimers(host, "notify") : host' = ListenersCallback(host, timer)
    /\ UNCHANGED <<workerVars, burst>>

InitSubscribe ==
    /\ host = SubscriberHost(Graph(<<>>, <<>>), 100)
    /\ burst = NoBurst
    /\ algo = NoAlgo
    /\ lastStepResult = NoResult
    /\ ultimoIndiceEnviado = 0
    /\ lastProgressAttempts = -1
    /\ wpc = "idle"
    /\ outbox = <<>>

NextSubscribe ==
    \/ \E d \in Lapses : Advance(d, SubscribeHorizon)
    \/ Subscribe
    \/ Unsubscribe
    \/ Change
    \/ FireFlush

SpecSubscribe == InitSubscribe /\ [][NextSubscribe]_vars

(***************************************************************************)
(* LocalSearch, on the live graph.                                         *)
(***************************************************************************)
\* ALGORITHM.LOCAL_SEARCH_DELAY: the period (ms) of the pacing timer.
LOCAL_SEARCH_DELAY == 150

\* A variant of contarConflictosConColor that counts only the edges the node
\* is the source of.
contarConflictosSalientes(idNodo, color, aristas, colores) ==
    Len(SelectSeq(aristas, LAMBDA arista :
        arista.sourceId = idNodo /\ Get(colores, arista.targetId) = color))

\* contarConflictosConColor(idNodo, color, aristas, colores)
contarConflictosConColor(idNodo, color, aristas, colores) ==
    Len(SelectSeq(aristas, LAMBDA arista :
        /\ (arista.sourceId = idNodo \/ arista.targetId = idNodo)
        /\ Get(colores, IF arista.sourceId = idNodo THEN arista.targetId
                        ELSE arista.sourceId) = color))

\* Array.from(new Set(ids)): the ids in the order they were first added.
RECURSIVE InsertionOrder(_, _)
InsertionOrder(ids, added) ==
    IF ids = <<>> THEN added
    ELSE InsertionOrder(Tail(ids), IF Head(ids) \in Range(added) THEN added
                                   ELSE Append(added, Head(ids)))

\* A variant of actualizarNodosConflictivos that queues node 1 as well.
actualizarNodosYPrimero(ls) ==
    [ls EXCEPT !.conflictingNodes =
        InsertionOrder(<<1>> \o [i \in 1 .. 2 * Len(ls.conflictEdges) |->
                                    IF i % 2 = 1 THEN ls.conflictEdges[(i + 1) \div 2].sourceId
                                    ELSE ls.conflictEdges[i \div 2].targetId],
                       <<>>)]

\* LocalSearch._actualizarNodosConflictivos: the source and the target of
\* each conflict edge are added to a Set, in the order of the edges.
actualizarNodosConflictivos(ls) ==
    [ls EXCEPT !.conflictingNodes =
        InsertionOrder([i \in 1 .. 2 * Len(ls.conflictEdges) |->
                           IF i % 2 = 1 THEN ls.conflictEdges[(i + 1) \div 2].sourceId
                           ELSE ls.conflictEdges[i \div 2].targetId],
                       <<>>)]

\* LocalSearch constructor
LocalSearch(graph, numberOfColors) ==
    actualizarNodosConflictivos(
        [colorPalette |-> generarPaletaColores(numberOfColors),
         colors |-> ColorMap(graph.nodos),
         conflictEdges |-> obtenerAristasConflicto(graph.nodos, graph.aristas),
         conflictingNodes |-> <<>>,
         currentIndex |-> 0,
         recoloredCount |-> 0,
         totalRecoloredCount |-> 0,
         recoloredNodes |-> <<>>,
         initialConflicts |-> Len(obtenerAristasConflicto(graph.nodos, graph.aristas)),
         done |-> FALSE,
         passNumber |-> 1])

\* A variant of MejorColor that also takes a colour with as many conflicts
\* as the best so far.
RECURSIVE MejorColorEmpate(_, _, _, _, _, _)
MejorColorEmpate(ls, aristas, nodeId, i, bestColor, minimumConflicts) ==
    IF i > Len(ls.colorPalette) THEN bestColor
    ELSE IF /\ ls.colorPalette[i] # Get(ls.colors, nodeId)
            /\ contarConflictosConColor(nodeId, ls.colorPalette[i], aristas, ls.colors)
                   <= minimumConflicts
         THEN MejorColorEmpate(ls, aristas, nodeId, i + 1, ls.colorPalette[i],
                  contarConflictosConColor(nodeId, ls.colorPalette[i], aristas, ls.colors))
         ELSE MejorColorEmpate(ls, aristas, nodeId, i + 1, bestColor, minimumConflicts)

\* The loop of encontrarMejorColor from palette index i on: the best colour.
RECURSIVE MejorColor(_, _, _, _, _, _)
MejorColor(ls, aristas, nodeId, i, bestColor, minimumConflicts) ==
    IF i > Len(ls.colorPalette) THEN bestColor
    ELSE IF /\ ls.colorPalette[i] # Get(ls.colors, nodeId)
            /\ contarConflictosConColor(nodeId, ls.colorPalette[i], aristas, ls.colors)
                   < minimumConflicts
         THEN MejorColor(ls, aristas, nodeId, i + 1, ls.colorPalette[i],
                  contarConflictosConColor(nodeId, ls.colorPalette[i], aristas, ls.colors))
         ELSE MejorColor(ls, aristas, nodeId, i + 1, bestColor, minimumConflicts)

\* A variant of encontrarMejorColor that keeps the colour of the node.
encontrarColorActual(ls, aristas, nodeId) == Get(ls.colors, nodeId)

\* LocalSearch.encontrarMejorColor(nodeId).bestColor
encontrarMejorColor(ls, aristas, nodeId) ==
    MejorColor(ls, aristas, nodeId, 1, Get(ls.colors, nodeId),
        contarConflictosConColor(nodeId, Get(ls.colors, nodeId), aristas, ls.colors))

\* "nodo.color = colors[nodo.id]" for each node of the live graph
PaintNodes(nodos, colors) ==
    [i \in DOMAIN nodos |-> [nodos[i] EXCEPT !.color = Get(colors, nodos[i].id)]]

\* A variant of RestoreNodes that leaves the nodes as they were painted.
RestoreNodesNot(nodos, originalColors) == nodos

\* LocalSearch.actualizarConflictos, the second forEach:
\* "nodo.color = originalColors[nodo.id]"
RestoreNodes(nodos, originalColors) == PaintNodes(nodos, originalColors)

\* LocalSearch.actualizarConflictos: this.conflictEdges becomes the conflict
\* edges of the live graph with its nodes painted with this.colors.
actualizarConflictos(ls, graph) ==
    [ls EXCEPT !.conflictEdges =
        obtenerAristasConflicto(PaintNodes(graph.nodos, ls.colors), graph.aristas)]

\* LocalSearch.actualizarConflictos: the live graph it leaves, its nodes
\* painted with this.colors and then given back the colours saved in
\* originalColors.
actualizarConflictosGraph(ls, graph) ==
    [graph EXCEPT !.nodos = RestoreNodes(PaintNodes(@, ls.colors), ColorMap(@))]

\* LocalSearch.step, from "const nodeId" on: the node is given bestColor.
Recolor(ls, graph, nodeId, bestColor) ==
    actualizarConflictos(
        IF bestColor # Get(ls.colors, nodeId)
        THEN [ls EXCEPT !.colors[nodeId] = bestColor,
                        !.recoloredCount = @ + 1,
                        !.totalRecoloredCount = @ + 1,
                        !.recoloredNodes = Append(@, [nodeId |-> nodeId,
                                                      oldColor |-> Get(ls.colors, nodeId),
                                                      newColor |-> bestColor]),
                        !.currentIndex = @ + 1]
        ELSE [ls EXCEPT !.currentIndex = @ + 1],
        graph)

\* LocalSearch.step, the node at currentIndex is processed.
ProcessNode(ls, graph) ==
    Recolor(ls, graph, ls.conflictingNodes[ls.currentIndex + 1],
            encontrarMejorColor(ls, graph.aristas, ls.conflictingNodes[ls.currentIndex + 1]))

\* A variant of LocalSearchStep that starts a new pass after a pass that
\* recoloured no node.
LocalSearchStepOtraPasada(ls, graph) ==
    IF ls.done THEN ls
    ELSE IF ls.currentIndex >= Len(ls.conflictingNodes)
         THEN IF Len(ls.conflictEdges) = 0
              THEN [ls EXCEPT !.done = TRUE]
              ELSE ProcessNode(actualizarNodosConflictivos(
                                   [ls EXCEPT !.passNumber = @ + 1,
                                              !.currentIndex = 0,
                                              !.recoloredCount = 0]), graph)
         ELSE ProcessNode(ls, graph)

\* LocalSearch.step: the instance after the call.
LocalSearchStep(ls, graph) ==
    IF ls.done THEN ls
    ELSE IF ls.currentIndex >= Len(ls.conflictingNodes)
         THEN IF Len(ls.conflictEdges) = 0 \/ ls.recoloredCount = 0
              THEN [ls EXCEPT !.done = TRUE]
              ELSE ProcessNode(actualizarNodosConflictivos(
                                   [ls EXCEPT !.passNumber = @ + 1,
                                              !.currentIndex = 0,
                                              !.recoloredCount = 0]), graph)
         ELSE ProcessNode(ls, graph)

\* LocalSearch.step: the live graph after the call (actualizarConflictos
\* runs in every step that processes a node).
LocalSearchStepGraph(ls, graph) ==
    IF ls.done \/ (ls.currentIndex >= Len(ls.conflictingNodes)
                      /\ (Len(ls.conflictEdges) = 0 \/ ls.recoloredCount = 0))
    THEN graph
    ELSE actualizarConflictosGraph(LocalSearchStep(ls, graph), graph)

\* LocalSearch._obtenerResultadoPaso: what step() returns.
obtenerResultadoPaso(ls) ==
    [colors |-> ls.colors,
     conflictEdges |-> ls.conflictEdges,
     done |-> ls.done,
     stats |-> [attempts |-> ls.totalRecoloredCount,
                conflicts |-> Len(ls.conflictEdges),
                progress |-> IF ls.initialConflicts > 0
                             THEN Ratio(Min(ls.initialConflicts - Len(ls.conflictEdges),
                                            ls.initialConflicts), ls.initialConflicts)
                             ELSE Ratio(1, 1),
                initialConflicts |-> ls.initialConflicts,
                conflictsReduced |-> ls.initialConflicts - Len(ls.conflictEdges),
                improvement |-> IF ls.initialConflicts > 0
                                THEN (200 * (ls.initialConflicts - Len(ls.conflictEdges))
                                        + ls.initialConflicts) \div (2 * ls.initialConflicts)
                                ELSE 0,
                recoloredNodes |-> ls.recoloredNodes,
                passNumber |-> ls.passNumber]]

(***************************************************************************)
(* Graph.                                                                  *)
(***************************************************************************)
\* Graph.agregarNodo
agregarNodo(graph) ==
    [graph EXCEPT !.nodos = Append(@, Node(IF Len(@) > 0 THEN @[Len(@)].id + 1 ELSE 1, NULL))]

\* Whether an edge joins the two nodes, in either direction.
Joins(arista, sourceId, targetId) ==
    \/ (arista.sourceId = sourceId /\ arista.targetId = targetId)
    \/ (arista.sourceId = targetId /\ arista.targetId = sourceId)

\* Graph.agregarArista
agregarArista(graph, sourceId, targetId) ==
    IF sourceId = targetId
       \/ \E i \in DOMAIN graph.aristas : Joins(graph.aristas[i], sourceId, targetId)
    THEN graph
    ELSE [graph EXCEPT !.aristas = Append(@, Edge(sourceId, targetId))]

\* Graph.eliminarArista
eliminarArista(graph, sourceId, targetId) ==
    [graph EXCEPT !.aristas = SelectSeq(@, LAMBDA arista : ~Joins(arista, sourceId, targetId))]

\* Graph.eliminarNodo
eliminarNodo(graph, nodeId) ==
    [nodos |-> SelectSeq(graph.nodos, LAMBDA nodo : nodo.id # nodeId),
     aristas |-> SelectSeq(graph.aristas, LAMBDA arista :
                     arista.sourceId # nodeId /\ arista.targetId # nodeId)]

(***************************************************************************)
(* StateManager, the methods that set flags and history.                   *)
(***************************************************************************)
\* StateManager.resetColoringState
resetColoringState(h) ==
    [h EXCEPT !.coloringStats = NoStats, !.conflictEdges = <<>>, !.attemptsHistory = <<>>,
              !.hasManualChanges = FALSE, !.hasColoredGraph = FALSE]

\* StateManager.setNumColors
setNumColors(h, numColors) == [h EXCEPT !.numColors = numColors]

\* StateManager.markManualChange
markManualChange(h) ==
    [h EXCEPT !.hasManualChanges = TRUE, !.coloringStats = NoStats, !.attemptsHistory = <<>>]

\* StateManager.resetManualChanges
resetManualChanges(h) == [h EXCEPT !.hasManualChanges = FALSE]

\* StateManager.addAttemptsToHistoryBatch
addAttemptsToHistoryBatch(h, attempts) == [h EXCEPT !.attemptsHistory = @ \o attempts]

\* StateManager.markGraphAsColored
markGraphAsColored(h) == [h EXCEPT !.hasColoredGraph = TRUE]

(***************************************************************************)
(* WorkerManager and ColoringController.                                   *)
(***************************************************************************)
\* A handler of the given session (a tick, or the handler of a message of
\* its worker) writes the state.
Publish(h, session) ==
    [h EXCEPT !.published = [session |-> session, flip |-> ~@.flip]]

\* The given session is over (finished or aborted).
Finish(h, session) == [h EXCEPT !.active = IF @ = session THEN 0 ELSE @]

\* ColoringController.applyColoring(colorMap), colorMap an object
applyColoring(h, colorMap) ==
    markGraphAsColored(
        [h EXCEPT !.graph.nodos = [i \in DOMAIN @ |-> Node(@[i].id, Get(colorMap, @[i].id))]])

\* A variant of terminateWorker that leaves the worker running.
terminateWorkerNot(h) == h

\* WorkerManager.terminateWorker
terminateWorker(h) ==
    IF h.worker # 0
    THEN [h EXCEPT !.workers = @ \ {h.worker}, !.failed = @ \ {h.worker},
                   !.toWorker = <<>>, !.worker = 0, !.workerRunning = FALSE]
    ELSE h

\* WorkerManager.initWorker: the new Worker is named after the session.
initWorker(h) ==
    IF h.worker # 0 THEN h
    ELSE [h EXCEPT !.worker = h.sessions, !.workers = @ \cup {h.sessions}]

\* WorkerManager.postMessage
postMessage(h, message) ==
    [initWorker(h) EXCEPT !.toWorker = Append(@, [session |-> h.active, message |-> message])]

\* The onerror callback of initWorker: the Worker's script failed.
onerror(h) ==
    notify(setColoringStats([h EXCEPT !.workerRunning = FALSE,
                                      !.failed = @ \cup {h.worker}], NoStats), FALSE)

\* stopDynamicRun, from "if (clearStats)" on
ClearStats(h, clearStats) ==
    IF clearStats THEN notify(setConflictEdges(setColoringStats(h, NoStats), <<>>), FALSE)
    ELSE h

\* stopDynamicRun, "if (this.workerManager && this.workerManager.isWorkerRunning())"
TerminateIfRunning(h) == IF h.workerRunning THEN terminateWorker(h) ELSE h

\* ColoringController.stopDynamicRun(clearStats)
stopDynamicRun(h, clearStats) ==
    ClearStats(TerminateIfRunning([clearTimeout(h, h.dynamicRun.timerId) EXCEPT
                                       !.dynamicRun = NoRun, !.active = 0]),
               clearStats)

\* The stats object startColoringWithWorker sets.
StartStats(algorithmLabel, session) ==
    [algorithm |-> algorithmLabel, dynamic |-> TRUE, isRunning |-> TRUE,
     isPaused |-> FALSE, attempts |-> 0, conflicts |-> 0, progress |-> Ratio(0, 1),
     session |-> session]

\* The message startColoringWithWorker posts.
StartMessage(h, options) ==
    [type |-> IF options.algorithm = "lasvegas-dynamic" THEN "colorLasVegas"
              ELSE "colorMonteCarlo",
     data |-> [graph |-> [nodes |-> [i \in DOMAIN h.graph.nodos |-> h.graph.nodos[i].id],
                          edges |-> [i \in DOMAIN h.graph.aristas |->
                                        Edge(h.graph.aristas[i].sourceId,
                                             h.graph.aristas[i].targetId)]],
               options |-> IF options.algorithm = "lasvegas-dynamic"
                           THEN [maxAttempts |-> Infinity, numberOfColors |-> h.numColors]
                           ELSE [iterations |-> IF options.iterations # 0
                                                THEN options.iterations ELSE 1000,
                                 numberOfColors |-> h.numColors]]]

\* startColoringWithWorker, from setNumColors to resetManualChanges
PrepareStart(h, options) ==
    resetManualChanges(setAttemptsHistory(
        TerminateIfRunning(setNumColors(h, IF options.numColors # 0 THEN options.numColors
                                           ELSE DEFAULT_COLORS)),
        <<>>))

\* startColoringWithWorker, from initWorker on; the session begins.
LaunchWorker(h, options) ==
    postMessage(
        notify(setColoringStats(
                   [initWorker(h) EXCEPT !.workerRunning = TRUE],
                   StartStats(IF options.algorithm = "lasvegas-dynamic" THEN "Las Vegas"
                              ELSE "Monte Carlo", h.sessions)),
               FALSE),
        StartMessage(h, options))

\* A session begins.
BeginSession(h) == [h EXCEPT !.sessions = @ + 1, !.active = h.sessions + 1]

\* ColoringController.startColoringWithWorker(options)
startColoringWithWorker(h, options) ==
    LaunchWorker(BeginSession(PrepareStart(stopDynamicRun(h, TRUE), options)), options)

\* ColoringController.startDynamicColoring(options): the callback is named
\* after the session that registers it (0: null).
startDynamicColoring(h, options) ==
    startColoringWithWorker(
        [stopDynamicRun(h, TRUE) EXCEPT
            !.onNoSolutionFoundCallback = IF options.onNoSolutionFound THEN h.sessions + 1
                                          ELSE 0],
        options)

\* _handleColorProgress: coloringStats after its fields are assigned.
ProgressStats(stats, data) ==
    [attempts |-> data.attempts, conflicts |-> data.conflicts, progress |-> data.progress,
     meanConflicts |-> data.meanConflicts, successRate |-> data.successRate] @@ stats

\* WorkerManager._handleColorProgress(data), for a worker of the session
handleColorProgress(h, data, session) ==
    IF h.coloringStats = NoStats THEN h
    ELSE notify(
             addAttemptsToHistoryBatch(
                 setConflictEdges(
                     applyColoring(
                         Publish([h EXCEPT !.coloringStats = ProgressStats(@, data)], session),
                         data.colors),
                     data.conflictEdges),
                 data.newAttempts),
             data.attempts % 50 = 0)

\* _handleColorComplete: estadisticasFinales
FinalStats(data, session) ==
    [algorithm |-> data.algorithm, dynamic |-> FALSE, isRunning |-> FALSE,
     isPaused |-> FALSE, attempts |-> data.result.stats.attempts,
     conflicts |-> data.result.stats.conflicts,
     meanConflicts |-> data.result.stats.meanConflicts,
     successRate |-> data.result.stats.successRate,
     progress |-> Ratio(1, 1), session |-> session]

\* _handleColorComplete, up to setColoringStats
CompleteState(h, data, session) ==
    [setColoringStats(
         IF Len(h.attemptsHistory) = 0
         THEN setAttemptsHistory(
                  setConflictEdges(applyColoring(h, data.result.colors),
                                   data.result.conflictEdges),
                  data.result.attemptsHistory)
         ELSE setConflictEdges(applyColoring(h, data.result.colors),
                               data.result.conflictEdges),
         FinalStats(data, session))
     EXCEPT !.finalStats = FinalStats(data, session)]

\* _handleColorComplete: the deferred call of the no-solution callback
DeferNoSolution(h, data, session) ==
    IF data.result.stats.conflicts > 0 /\ h.onNoSolutionFoundCallback # 0
    THEN [h EXCEPT !.timers = Append(@, Timer("noSolution", h.now + 500, session,
                                              FinalStats(data, session)))]
    ELSE h

\* WorkerManager._handleColorComplete(data), for a worker of the session
handleColorComplete(h, data, session) ==
    notify(terminateWorker(
               [DeferNoSolution(CompleteState(Publish(Finish(h, session), session),
                                              data, session),
                                data, session)
                EXCEPT !.workerRunning = FALSE]),
           TRUE)

\* WorkerManager._handleError(data), for a worker of the session
handleError(h, data, session) ==
    notify(setColoringStats(
               terminateWorker([Finish(h, session) EXCEPT !.workerRunning = FALSE]),
               NoStats),
           TRUE)

\* WorkerManager._handleWorkerMessage
handleWorkerMessage(h, message, session) ==
    IF message.type = "colorProgress" THEN handleColorProgress(h, message, session)
    ELSE IF message.type = "colorComplete" THEN handleColorComplete(h, message, session)
    ELSE IF message.type = "error" THEN handleError(h, message, session)
    ELSE h

\* The stats object startLocalSearchDynamic sets (the label is written
\* without its accent).
LocalStartStats(ls, session) ==
    [algorithm |-> "Busqueda Local", dynamic |-> TRUE, isRunning |-> TRUE,
     isPaused |-> FALSE, attempts |-> 0, conflicts |-> ls.initialConflicts,
     progress |-> Ratio(0, 1), session |-> session]

\* tick: baseStats
BaseStats(stats, session) ==
    [algorithm |-> "Busqueda Local", dynamic |-> TRUE, isRunning |-> TRUE,
     isPaused |-> FALSE, attempts |-> stats.attempts, conflicts |-> stats.conflicts,
     progress |-> stats.progress, session |-> session]

\* The instance the tick of a session holds, after its step.
StoreAlgo(h, session, ls) ==
    [h EXCEPT !.timers = [i \in DOMAIN @ |->
        IF @[i].kind = "tick" /\ @[i].session = session
        THEN [@[i] EXCEPT !.data = ls] ELSE @[i]]]

\* tick, from applyColoring to the first notify
TickPublish(h, session, stepResult) ==
    notify(setColoringStats(
               setConflictEdges(applyColoring(Publish(h, session), stepResult.colors),
                                stepResult.conflictEdges),
               BaseStats(stepResult.stats, session)),
           FALSE)

\* tick, done branch: the final fields of coloringStats, the manual-change
\* flag and the deferred onComplete callback
DoneStats(h, session, current, stats) ==
    [h EXCEPT !.coloringStats = [success |-> stats.conflicts = 0,
                                 conflictsReduced |-> stats.conflictsReduced,
                                 improvement |-> stats.improvement] @@ @,
              !.hasManualChanges = IF stats.conflicts = 0 THEN FALSE ELSE @,
              !.timers = IF current.onComplete
                         THEN Append(@, Timer("onComplete", h.now + 100, session, <<>>))
                         ELSE @]

\* tick, done branch after stopDynamicRun(false)
DoneNotify(h) ==
    IF h.coloringStats # NoStats
    THEN notify([h EXCEPT !.coloringStats = [@ EXCEPT !.isRunning = FALSE,
                                                      !.isPaused = FALSE,
                                                      !.dynamic = FALSE],
                          !.finalStats = [h.coloringStats EXCEPT !.isRunning = FALSE,
                                                                 !.isPaused = FALSE,
                                                                 !.dynamic = FALSE]],
                FALSE)
    ELSE h

\* tick, "if (stepResult.done)"
TickDone(h, session, current, stepResult) ==
    IF stepResult.done
    THEN DoneNotify(stopDynamicRun(DoneStats(h, session, current, stepResult.stats), FALSE))
    ELSE h

\* tick, once algo.step() has returned: ls is the instance (algo) after the step.
TickStep(h, session, ls) ==
    TickDone(TickPublish(StoreAlgo(h, session, ls), session, obtenerResultadoPaso(ls)),
             session, h.dynamicRun, obtenerResultadoPaso(ls))

\* The tick closure of _startDynamicLoop, which holds the session's algo.
tick(h, session, ls) ==
    IF ~h.dynamicRun.running THEN h
    ELSE TickStep([h EXCEPT !.graph = LocalSearchStepGraph(ls, @)], session,
                  LocalSearchStep(ls, h.graph))

\* ColoringController._startDynamicLoop: setInterval, then the first tick.
startDynamicLoop(h, ls) ==
    tick([h EXCEPT !.timers = Append(@, Timer("tick", h.now + LOCAL_SEARCH_DELAY,
                                              h.dynamicRun.session, ls)),
                   !.dynamicRun.timerId = Timer("tick", h.now + LOCAL_SEARCH_DELAY,
                                                h.dynamicRun.session, ls)],
         h.dynamicRun.session, ls)

\* startLocalSearchDynamic, from "new LocalSearch" on; the session begins.
LaunchLocalSearch(h, onComplete, ls) ==
    startDynamicLoop(
        notify(setColoringStats(
                   [h EXCEPT !.dynamicRun = [running |-> TRUE, session |-> h.sessions,
                                             timerId |-> NoTimer,
                                             onComplete |-> onComplete]],
                   LocalStartStats(ls, h.sessions)),
               FALSE),
        ls)

\* startLocalSearchDynamic after stopDynamicRun(true)
StartLocalSearch(h, onComplete) ==
    IF Len(h.graph.nodos) = 0 THEN h
    ELSE LaunchLocalSearch(BeginSession(resetManualChanges(h)), onComplete,
                           LocalSearch(h.graph, h.numColors))

\* ColoringController.startLocalSearchDynamic(onComplete)
startLocalSearchDynamic(h, onComplete) ==
    StartLocalSearch(stopDynamicRun(h, TRUE), onComplete)

\* ColoringController.manualRecolor(nodeId, newColor): the state it leaves
manualRecolor(h, nodeId, newColor) ==
    IF \E i \in DOMAIN h.graph.nodos : h.graph.nodos[i].id = nodeId
    THEN notify(markManualChange(
                    [h EXCEPT !.graph.nodos = [i \in DOMAIN @ |->
                        IF @[i].id = nodeId THEN Node(nodeId, newColor) ELSE @[i]]]),
                FALSE)
    ELSE h

(***************************************************************************)
(* graphAnalysis and recolorAnalysis: what manualRecolor returns.          *)
(***************************************************************************)
\* obtenerVecinosNodo: the id at the other end of each edge of the node
OtherEnds(idNodo, aristas) ==
    [j \in DOMAIN aristas |-> IF aristas[j].sourceId = idNodo THEN aristas[j].targetId
                              ELSE aristas[j].sourceId]

\* obtenerVecinosNodo: ".map(id => nodoMap.get(id))"
NodesOf(ids, nodoMap) == [i \in DOMAIN ids |-> nodoMap[ids[i]]]

\* obtenerVecinosNodo: the nodes at the other end of the edges of the node,
\* each once, in the order of the edges; an end that is no node is left out.
obtenerVecinosNodo(idNodo, aristas, nodos) ==
    NodesOf(SelectSeq(InsertionOrder(
                          OtherEnds(idNodo,
                                    SelectSeq(aristas, LAMBDA arista :
                                        arista.sourceId = idNodo \/ arista.targetId = idNodo)),
                          <<>>),
                      LAMBDA id : id \in DOMAIN crearMapaNodos(nodos)),
            crearMapaNodos(nodos))

\* obtenerColoresVecinos: the colours the neighbours of the node hold
obtenerColoresVecinos(idNodo, aristas, nodos) ==
    {nodo.color : nodo \in {vecino \in Range(obtenerVecinosNodo(idNodo, aristas, nodos)) :
                                vecino.color # NULL}}

\* calcularImpactoRecoloracion
calcularImpactoRecoloracion(idNodo, nuevoColor, nodos, aristas) ==
    [vecinos |-> obtenerVecinosNodo(idNodo, aristas, nodos),
     vecinosConflictivos |-> SelectSeq(obtenerVecinosNodo(idNodo, aristas, nodos),
                                       LAMBDA nodo : nodo.color = nuevoColor),
     conteoNuevosConflictos |-> Len(SelectSeq(obtenerVecinosNodo(idNodo, aristas, nodos),
                                              LAMBDA nodo : nodo.color = nuevoColor))]

\* calcularProbabilidadExito and generarSugerenciasRecoloracion:
\* coloresDisponibles.filter(color => !coloresVecino.has(color))
coloresAlternativos(vecino, coloresDisponibles, aristas, nodos) ==
    SelectSeq(coloresDisponibles,
              LAMBDA color : color \notin obtenerColoresVecinos(vecino.id, aristas, nodos))

\* calcularProbabilidadExito(...).conteoRecoloreables
conteoRecoloreables(vecinosConflictivos, coloresDisponibles, aristas, nodos) ==
    Len(SelectSeq(vecinosConflictivos, LAMBDA vecino :
            Len(coloresAlternativos(vecino, coloresDisponibles, aristas, nodos)) > 0))

\* generarSugerenciasRecoloracion: the entry pushed for a neighbour
Sugerencia(vecino, coloresDisponibles, aristas, nodos) ==
    [idNodo |-> vecino.id,
     colorActual |-> vecino.color,
     coloresSugeridos |-> coloresAlternativos(vecino, coloresDisponibles, aristas, nodos),
     conteoConflictos |-> Len(SelectSeq(obtenerVecinosNodo(vecino.id, aristas, nodos),
                                        LAMBDA nodo : nodo.color = vecino.color))]

\* A variant of SugerenciaEmitida that emits an entry for every neighbour.
SugerenciaSiempre(vecino, coloresDisponibles, aristas, nodos) == TRUE

\* generarSugerenciasRecoloracion: "if (coloresSugeridos.length > 0)"
SugerenciaEmitida(vecino, coloresDisponibles, aristas, nodos) ==
    Len(coloresAlternativos(vecino, coloresDisponibles, aristas, nodos)) > 0

\* generarSugerenciasRecoloracion
generarSugerenciasRecoloracion(vecinosConflictivos, coloresDisponibles, aristas, nodos) ==
    [i \in DOMAIN SelectSeq(vecinosConflictivos, LAMBDA vecino :
               SugerenciaEmitida(vecino, coloresDisponibles, aristas, nodos)) |->
        Sugerencia(SelectSeq(vecinosConflictivos, LAMBDA vecino :
                       SugerenciaEmitida(vecino, coloresDisponibles, aristas, nodos))[i],
                   coloresDisponibles, aristas, nodos)]

\* contarConflictosTotales
contarConflictosTotales(nodos, aristas) == Len(obtenerAristasConflicto(nodos, aristas))

\* manualRecolor: the live nodes after "nodo.color = newColor"
Recolored(nodos, nodeId, newColor) ==
    [i \in DOMAIN nodos |-> IF nodos[i].id = nodeId THEN Node(nodeId, newColor) ELSE nodos[i]]

\* The object manualRecolor returns for a node of the graph (null for an id
\* that is no node), given the impact computed before the colour is
\* assigned; the conflicting neighbours keep their colour.  The fields
\* computed in floating point (successProbability, and impactAnalysis with
\* its changePercent) are left out.
RecolorResult(h, nodeId, newColor, impact) ==
    [nodeId |-> nodeId,
     oldColor |-> ColorMap(h.graph.nodos)[nodeId],
     newColor |-> newColor,
     conflictsBefore |-> contarConflictosTotales(h.graph.nodos, h.graph.aristas),
     conflictsAfter |-> contarConflictosTotales(Recolored(h.graph.nodos, nodeId, newColor),
                                                h.graph.aristas),
     conflictDelta |->
         contarConflictosTotales(Recolored(h.graph.nodos, nodeId, newColor), h.graph.aristas)
             - contarConflictosTotales(h.graph.nodos, h.graph.aristas),
     conflictingNeighbors |-> [i \in DOMAIN impact.vecinosConflictivos |->
                                  impact.vecinosConflictivos[i].id],
     conflictingNeighborsCount |-> Len(impact.vecinosConflictivos),
     nodesToRecolor |-> Len(impact.vecinosConflictivos),
     canRecolorCount |->
         conteoRecoloreables(impact.vecinosConflictivos,
                             generarPaletaColores(h.numColors), h.graph.aristas,
                             Recolored(h.graph.nodos, nodeId, newColor)),
     totalNeighbors |-> Len(impact.vecinos),
     recolorSuggestions |->
         generarSugerenciasRecoloracion(impact.vecinosConflictivos,
                                        generarPaletaColores(h.numColors), h.graph.aristas,
                                        Recolored(h.graph.nodos, nodeId, newColor)),
     kColors |-> h.numColors]

\* ColoringController.manualRecolor(nodeId, newColor): what it returns
manualRecolorResult(h, nodeId, newColor) ==
    IF \E i \in DOMAIN h.graph.nodos : h.graph.nodos[i].id = nodeId
    THEN RecolorResult(h, nodeId, newColor,
                       calcularImpactoRecoloracion(nodeId, newColor, h.graph.nodos,
                                                   h.graph.aristas))
    ELSE NoResult

(***************************************************************************)
(* GraphOperationsController.                                              *)
(***************************************************************************)
\* connectNodes, deleteEdge, deleteNode: "if (hasColoredGraph)
\* markManualChange()", then notify()
EditDone(h) == notify(IF h.hasColoredGraph THEN markManualChange(h) ELSE h, FALSE)

\* GraphOperationsController.createManualNode
createManualNode(h) ==
    notify([stopDynamicRun(h, TRUE) EXCEPT !.graph = agregarNodo(@)], FALSE)

\* GraphOperationsController.connectNodes
connectNodes(h, sourceId, targetId) ==
    EditDone([stopDynamicRun(h, FALSE) EXCEPT !.graph = agregarArista(@, sourceId, targetId)])

\* GraphOperationsController.deleteEdge
deleteEdge(h, sourceId, targetId) ==
    EditDone([stopDynamicRun(h, FALSE) EXCEPT !.graph = eliminarArista(@, sourceId, targetId)])

\* GraphOperationsController.deleteNode
deleteNode(h, nodeId) ==
    EditDone([stopDynamicRun(h, FALSE) EXCEPT !.graph = eliminarNodo(@, nodeId)])

\* GraphOperationsController.clearColors
clearColors(h) ==
    notify(resetColoringState(
               [stopDynamicRun(h, TRUE) EXCEPT
                    !.graph.nodos = [i \in DOMAIN @ |-> Node(@[i].id, NULL)]]),
           FALSE)

\* GraphOperationsController.resetGraph
resetGraph(h) ==
    notify(resetManualChanges([stopDynamicRun(h, TRUE) EXCEPT !.graph = Graph(<<>>, <<>>)]),
           FALSE)

(***************************************************************************)
(* SpecHost: the application.  The user edits the graph and starts and     *)
(* stops runs, timers fire, the worker runs and its messages are handled,  *)
(* as time passes.                                                         *)
(***************************************************************************)
\* Sessions started in a behaviour.
MaxSessions == 2
\* Nodes of the live graph.
MaxNodes == 2
\* Edits of the graph, manual recolours and stops made in a behaviour.
MaxEdits == 2
\* The clock of SpecHost stops at this time (ms).
HostHorizon == 600

\* The lapses of time between two events of SpecHost.
HostLapses == {250}

\* The options the view passes to startDynamicColoring.
HostOptions ==
    {[algorithm |-> "lasvegas-dynamic", numColors |-> 2, iterations |-> 0,
      onNoSolutionFound |-> TRUE],
     [algorithm |-> "montecarlo-dynamic", numColors |-> 1, iterations |-> BATCH_SIZE + 1,
      onNoSolutionFound |-> TRUE]}

\* The colours the user picks in a manual recolour.
HostColors == {"blue"}

\* The worker thread before it received a message.
WorkerIdle ==
    /\ algo' = NoAlgo
    /\ lastStepResult' = NoResult
    /\ ultimoIndiceEnviado' = 0
    /\ lastProgressAttempts' = -1
    /\ wpc' = "idle"
    /\ outbox' = <<>>

\* Whether the thread the worker variables describe is that of a Worker
\* that was not terminated.
ThreadAlive(h) == h.thread.worker \in h.workers

\* A handler of the main thread leaves state h; the messages of the worker
\* not handled yet are box.  terminate() ends the thread of the Worker and
\* discards its messages.
HostStep(h, box) ==
    /\ host' = [h EXCEPT !.thread = IF ThreadAlive(h) THEN @
                                    ELSE [worker |-> 0, session |-> 0]]
    /\ IF ThreadAlive(h)
       THEN /\ outbox' = box
            /\ UNCHANGED <<algo, lastStepResult, ultimoIndiceEnviado, wpc,
                           lastProgressAttempts>>
       ELSE WorkerIdle
    /\ UNCHANGED burst

\* The user starts a run, which leaves state h.
Start(h) ==
    /\ host.sessions < MaxSessions
    /\ HostStep(h, outbox)

\* The user stops the run, recolours a node or edits the graph, which
\* leaves state h.
Edit(h) ==
    /\ host.edits < MaxEdits
    /\ HostStep([h EXCEPT !.edits = @ + 1], outbox)

\* The pacing timer of a session fires: setInterval re-arms it and tick runs.
FireTick ==
    \E timer \in DueTimers(host, "tick") :
        HostStep(tick([host EXCEPT !.timers[IndexOf(host.timers, timer)].due =
                                       host.now + LOCAL_SEARCH_DELAY],
                      timer.session, timer.data),
                 outbox)

\* The deferred onComplete callback of a local search runs (the view's).
FireOnComplete ==
    \E timer \in DueTimers(host, "onComplete") : HostStep(clearTimeout(host, timer), outbox)

\* The deferred call of the no-solution callback runs.
FireNoSolution ==
    \E timer \in DueTimers(host, "noSolution") :
        HostStep([clearTimeout(host, timer) EXCEPT !.onNoSolutionFoundCallback = 0], outbox)

\* The script of the Worker fails before it handled a message.
WorkerError ==
    /\ host.worker # 0
    /\ host.worker \notin host.failed
    /\ host.thread.worker # host.worker
    /\ HostStep(onerror(host), outbox)

\* The Worker receives the message posted to it.
WorkerReceive ==
    /\ host.toWorker # <<>>
    /\ host.worker \in host.workers \ host.failed
    /\ host.thread.worker = host.worker => wpc = "idle"
    /\ WorkerBegin(Head(host.toWorker).message)
    /\ outbox' = IF host.thread.worker = host.worker THEN outbox ELSE <<>>
    /\ host' = [host EXCEPT !.toWorker = Tail(@),
                            !.thread = [worker |-> host.worker,
                                        session |-> Head(host.toWorker).session]]
    /\ UNCHANGED burst

\* The Worker runs run() up to its next progress message.
WorkerRun == ThreadAlive(host) /\ RunBatch

\* The Worker posts colorComplete.
WorkerPost == ThreadAlive(host) /\ PostComplete

\* A step of the run throws.
WorkerFault == ThreadAlive(host) /\ PostError

\* The main thread handles the next message of the Worker.
HandleWorkerMessage ==
    /\ ThreadAlive(host)
    /\ outbox # <<>>
    /\ HostStep(handleWorkerMessage(host, Head(outbox), host.thread.session), Tail(outbox))

\* The graph the application starts with: two joined nodes, no colour.
InitHost ==
    /\ host = [NewHost(Graph(<<Node(1, NULL), Node(2, NULL)>>, <<Edge(1, 2)>>), 100)
                  EXCEPT !.metered = FALSE]
    /\ burst = NoBurst
    /\ algo = NoAlgo
    /\ lastStepResult = NoResult
    /\ ultimoIndiceEnviado = 0
    /\ lastProgressAttempts = -1
    /\ wpc = "idle"
    /\ outbox = <<>>

NextHost ==
    \/ \E d \in HostLapses : Advance(d, HostHorizon)
    \/ FireNotify
    \/ FireTick
    \/ FireOnComplete
    \/ FireNoSolution
    \/ \E onComplete \in BOOLEAN : Start(startLocalSearchDynamic(host, onComplete))
    \/ \E options \in HostOptions : Start(startDynamicColoring(host, options))
    \/ Edit(stopDynamicRun(host, TRUE))
    \/ \E nodeId \in 1 .. MaxNodes : \E newColor \in HostColors :
           Edit(manualRecolor(host, nodeId, newColor))
    \/ (Len(host.graph.nodos) < MaxNodes /\ Edit(createManualNode(host)))
    \/ Edit(connectNodes(host, 1, 2))
    \/ Edit(deleteEdge(host, 1, 2))
    \/ Edit(deleteNode(host, 2))
    \/ Edit(clearColors(host))
    \/ Edit(resetGraph(host))
    \/ WorkerError
    \/ WorkerReceive
    \/ WorkerRun
    \/ WorkerPost
    \/ WorkerFault
    \/ HandleWorkerMessage

SpecHost == InitHost /\ [][NextHost]_vars

(***************************************************************************)
(* The view: ControlPanelView, MainLayout and ColorIncrementModal.         *)
(***************************************************************************)
\* GRAPH_CONSTRAINTS.MIN_COLORS and MAX_COLORS: the ends of the colour slider
MIN_COLORS == 3
MAX_COLORS == 10

\* ITERATION_LIMITS.MIN_ITERATIONS: the low end of the iteration slider
MIN_ITERATIONS == 10000

\* ANIMATION.DELAY_SHORT (ms)
DELAY_SHORT == 300

\* originalOptions: null
NoOptions == [algorithm |-> NULL]

\* The state of MainLayout and ControlPanelView next to that of the
\* controller: the colour-increment modal, whether the warning modal is open,
\* the options the no-solution callback of each session closes over, and the
\* sessions the retry of the modal started.
ViewHost(graph, t) ==
    [modalIncrementoColores |-> [isOpen |-> FALSE, currentColors |-> 0,
                                 maxColors |-> MAX_COLORS, attempts |-> 0,
                                 algorithm |-> "", originalOptions |-> NoOptions],
     estadoModal |-> FALSE,
     callbacks |-> <<>>,
     retries |-> {}] @@ [NewHost(graph, t) EXCEPT !.metered = FALSE]

\* validarOpcionesColoracion(opciones).valid (0: undefined)
validarOpcionesColoracion(opciones) ==
    /\ ~(\/ opciones.numColors = 0
         \/ opciones.numColors < MIN_COLORS
         \/ opciones.numColors > MAX_COLORS)
    /\ opciones.algorithm = "montecarlo-dynamic"
           => ~(opciones.iterations = 0 \/ opciones.iterations < 1)

\* validarSinNodosAislados(nodos, aristas).valid
validarSinNodosAislados(nodos, aristas) ==
    ~\E i \in DOMAIN nodos :
        \A j \in DOMAIN aristas : /\ aristas[j].sourceId # nodos[i].id
                                  /\ aristas[j].targetId # nodos[i].id

\* construirOpcionesColoracion (0: undefined)
construirOpcionesColoracion(usarMonteCarlo, cantidadColores, iteraciones) ==
    [numColors |-> cantidadColores,
     algorithm |-> IF usarMonteCarlo THEN "montecarlo-dynamic" ELSE "lasvegas-dynamic",
     iterations |-> IF usarMonteCarlo THEN iteraciones ELSE 0]

\* The options handleColorClick passes to onColorGraph.
ClickOptions(opciones, incrementoAutomaticoColores) ==
    [algorithm |-> opciones.algorithm, speed |-> "fast", numColors |-> opciones.numColors,
     autoIncrementColors |-> incrementoAutomaticoColores,
     iterations |-> opciones.iterations]

\* MainLayout.handleColorGraph(opciones): the callback it builds closes over
\* opciones.
handleColorGraph(h, opciones) ==
    IF opciones.algorithm \in {"lasvegas-dynamic", "montecarlo-dynamic"}
    THEN startDynamicColoring(
             [h EXCEPT !.callbacks = IF opciones.autoIncrementColors
                                     THEN ((h.sessions + 1) :> opciones) @@ @ ELSE @],
             [onNoSolutionFound |-> opciones.autoIncrementColors] @@ opciones)
    ELSE h

\* ControlPanelView.handleColorClick: nodes and edges are those of the
\* snapshot the listener was passed last.
handleColorClick(h, usarMonteCarlo, numeroColores, iteraciones, incrementoAutomaticoColores) ==
    IF ~validarSinNodosAislados(h.snapshot.nodos, h.snapshot.aristas)
    THEN [h EXCEPT !.estadoModal = TRUE]
    ELSE IF ~validarOpcionesColoracion(
                 construirOpcionesColoracion(usarMonteCarlo, numeroColores, iteraciones))
    THEN [h EXCEPT !.estadoModal = TRUE]
    ELSE handleColorGraph(
             h, ClickOptions(construirOpcionesColoracion(usarMonteCarlo, numeroColores,
                                                         iteraciones),
                             incrementoAutomaticoColores))

\* ControlPanelView.handleLocalSearchClick, MainLayout.handleLocalSearch
handleLocalSearchClick(h) ==
    IF ~validarSinNodosAislados(h.snapshot.nodos, h.snapshot.aristas)
    THEN [h EXCEPT !.estadoModal = TRUE]
    ELSE startLocalSearchDynamic(h, TRUE)

\* The callback handleColorGraph built for the session, called with stats.
onNoSolutionFound(h, session, stats) ==
    [h EXCEPT !.modalIncrementoColores =
        [isOpen |-> TRUE,
         currentColors |-> h.callbacks[session].numColors,
         maxColors |-> MAX_COLORS,
         attempts |-> stats.attempts,
         algorithm |-> IF h.callbacks[session].algorithm = "montecarlo-dynamic"
                       THEN "Monte Carlo" ELSE "Las Vegas",
         originalOptions |-> h.callbacks[session]]]

\* The callback _handleColorComplete deferred: "if (onNoSolutionFoundCallback)
\* { onNoSolutionFoundCallback(estadisticasFinales); ... = null }"
noSolutionCallback(h, timer) ==
    IF h.onNoSolutionFoundCallback # 0
    THEN [onNoSolutionFound(clearTimeout(h, timer), h.onNoSolutionFoundCallback, timer.data)
             EXCEPT !.onNoSolutionFoundCallback = 0]
    ELSE clearTimeout(h, timer)

\* A variant of alcanzadoMaximo that always offers the retry.
alcanzadoMaximoNever(modal) == FALSE

\* ColorIncrementModal: alcanzadoMaximo, which replaces the retry button by
\* "Entendido"
alcanzadoMaximo(modal) == modal.currentColors + 1 > modal.maxColors

\* MainLayout.handleRetryWithMoreColors
handleRetryWithMoreColors(h) ==
    [h EXCEPT !.modalIncrementoColores.isOpen = FALSE,
              !.timers = Append(@, Timer("retry", h.now + DELAY_SHORT, 0,
                                         [h.modalIncrementoColores.originalOptions EXCEPT
                                             !.numColors =
                                                 h.modalIncrementoColores.currentColors + 1]))]

\* MainLayout.handleCancelIncrement
handleCancelIncrement(h) == [h EXCEPT !.modalIncrementoColores.isOpen = FALSE]

\* The callback handleRetryWithMoreColors deferred.
retryCallback(h, timer) ==
    handleColorGraph([clearTimeout(h, timer) EXCEPT !.retries = @ \cup {h.sessions + 1}],
                     timer.data)

(***************************************************************************)
(* SpecView: the user sets the panel, starts runs, answers the modals and  *)
(* edits the graph, as time passes.  The Worker is its reply: the trials   *)
(* of a run are those of SpecAlgo, and a run of Monte Carlo here has the   *)
(* iterations of the slider, so the reply is drawn from the results a run  *)
(* can end with and its history holds the trial of that result alone.      *)
(***************************************************************************)
\* Sessions started in a behaviour.
ViewSessions == 2
\* Nodes of the live graph.
ViewNodes == 3
\* Edits of the graph made in a behaviour.
ViewEdits == 1
\* The clock of SpecView stops at this time (ms).
ViewHorizon == 1100

\* The lapses of time between two events of SpecView.
ViewLapses == {250}

\* The positions of the colour slider the user chooses.
ViewColorCounts == {MIN_COLORS, MAX_COLORS - 1, MAX_COLORS}

\* The positions of the iteration slider the user chooses.
ViewIterations == {MIN_ITERATIONS}

\* The colours of the colouring a run ends with.
ViewColors == {"blue", "red"}

\* The colourings a run started by the message can end with: Las Vegas ends
\* with a colouring free of conflicts.
ReplyColors(message) ==
    {colors \in [{message.data.graph.nodes[i] : i \in DOMAIN message.data.graph.nodes}
                     -> ViewColors] :
        message.type = "colorLasVegas"
            => evaluarColoracion(message.data.graph.edges, colors).conflicts = 0}

\* The colorComplete message of a run that ends with the colouring.
ReplyMessage(message, colors, evalResult) ==
    [type |-> "colorComplete",
     algorithm |-> IF message.type = "colorLasVegas" THEN "Las Vegas" ELSE "Monte Carlo",
     result |-> [colors |-> colors,
                 conflictEdges |-> evalResult.conflictEdges,
                 stats |-> [attempts |-> IF message.type = "colorLasVegas" THEN 1
                                         ELSE message.data.options.iterations,
                            conflicts |-> evalResult.conflicts,
                            meanConflicts |-> Ratio(evalResult.conflicts, 1),
                            successRate |-> Ratio(IF evalResult.conflicts = 0 THEN 1 ELSE 0, 1)],
                 attemptsHistory |-> <<[attemptNumber |->
                                            IF message.type = "colorLasVegas" THEN 1
                                            ELSE message.data.options.iterations,
                                        conflicts |-> evalResult.conflicts,
                                        success |-> evalResult.conflicts = 0]>>]]

\* A handler of the view that can start a run leaves state h.
ViewStart(h) ==
    /\ host.sessions < ViewSessions
    /\ HostStep(h, outbox)

\* The user clicks "Colorear" with the panel set.
ColorClick ==
    \E usarMonteCarlo \in BOOLEAN, numeroColores \in ViewColorCounts,
       iteraciones \in ViewIterations, incrementoAutomaticoColores \in BOOLEAN :
        ViewStart(handleColorClick(host, usarMonteCarlo, numeroColores, iteraciones,
                               incrementoAutomaticoColores))

\* The user clicks the local search button.
LocalSearchClick == ViewStart(handleLocalSearchClick(host))

\* The user closes the warning modal.
CloseWarning ==
    /\ host.estadoModal
    /\ HostStep([host EXCEPT !.estadoModal = FALSE], outbox)

\* The user clicks "Si, reintentar" of the colour-increment modal.
RetryClick ==
    /\ host.modalIncrementoColores.isOpen
    /\ ~alcanzadoMaximo(host.modalIncrementoColores)
    /\ HostStep(handleRetryWithMoreColors(host), outbox)

\* The user cancels the colour-increment modal.
CancelClick ==
    /\ host.modalIncrementoColores.isOpen
    /\ HostStep(handleCancelIncrement(host), outbox)

\* The deferred call of the no-solution callback runs.
FireNoSolutionView ==
    \E timer \in DueTimers(host, "noSolution") :
        HostStep(noSolutionCallback(host, timer), outbox)

\* The deferred retry runs.
FireRetry ==
    \E timer \in DueTimers(host, "retry") : ViewStart(retryCallback(host, timer))

\* The Worker handles the message posted to it and the main thread handles
\* its colorComplete.
WorkerReply ==
    /\ host.toWorker # <<>>
    /\ host.worker \in host.workers
    /\ \E colors \in ReplyColors(Head(host.toWorker).message) :
           HostStep(handleWorkerMessage(
                        [host EXCEPT !.toWorker = Tail(@)],
                        ReplyMessage(Head(host.toWorker).message, colors,
                                     evaluarColoracion(
                                         Head(host.toWorker).message.data.graph.edges,
                                         colors)),
                        Head(host.toWorker).session),
                    outbox)

\* The user edits the graph, which leaves state h.
ViewEdit(h) ==
    /\ host.edits < ViewEdits
    /\ HostStep([h EXCEPT !.edits = @ + 1], outbox)

\* The graph the application starts with: two joined nodes, no colour.
InitView ==
    /\ host = ViewHost(Graph(<<Node(1, NULL), Node(2, NULL)>>, <<Edge(1, 2)>>), 100)
    /\ burst = NoBurst
    /\ algo = NoAlgo
    /\ lastStepResult = NoResult
    /\ ultimoIndiceEnviado = 0
    /\ lastProgressAttempts = -1
    /\ wpc = "idle"
    /\ outbox = <<>>

NextView ==
    \/ \E d \in ViewLapses : Advance(d, ViewHorizon)
    \/ FireNotify
    \/ FireTick
    \/ FireOnComplete
    \/ FireNoSolutionView
    \/ FireRetry
    \/ ColorClick
    \/ LocalSearchClick
    \/ CloseWarning
    \/ RetryClick
    \/ CancelClick
    \/ WorkerReply
    \/ (Len(host.graph.nodos) < ViewNodes /\ ViewEdit(createManualNode(host)))
    \/ ViewEdit(connectNodes(host, 1, 2))
    \/ ViewEdit(deleteEdge(host, 1, 2))
    \/ ViewEdit(deleteNode(host, 2))

SpecView == InitView /\ [][NextView]_vars

(***************************************************************************)
(* SpecEval: evaluarColoracion and obtenerAristasConflicto applied to a    *)
(* node list and an edge list.                                             *)
(***************************************************************************)
\* Node ids of SpecEval, and the most edges of an edge list.
EvalNodes == 3
EvalEdges == 3

\* The colour of a node: null, or a colour.
EvalColors == {NULL, "blue", "red"}

\* The node lists: each id is absent or present once, with a colour.
EvalNodeLists ==
    {SelectSeq([i \in 1 .. EvalNodes |-> Node(i, c[i])], LAMBDA nodo : nodo.color # "absent") :
        c \in [1 .. EvalNodes -> EvalColors \cup {"absent"}]}

\* The edge lists: any edges between the ids, loops and repeated edges too.
EvalEdgeLists ==
    UNION {[1 .. n -> {Edge(a, b) : a, b \in 1 .. EvalNodes}] : n \in 0 .. EvalEdges}

\* A caller evaluates the colours of the nodes with both functions.
Evaluate ==
    /\ wpc = "eval"
    /\ lastStepResult' =
           [done |-> TRUE,
            evaluation |-> evaluarColoracion(host.graph.aristas, ColorMap(host.graph.nodos)),
            aristasConflicto |-> obtenerAristasConflicto(host.graph.nodos, host.graph.aristas)]
    /\ wpc' = "evaluated"
    /\ UNCHANGED <<algo, ultimoIndiceEnviado, outbox, lastProgressAttempts, host, burst>>

InitEval ==
    /\ \E nodos \in EvalNodeLists : \E aristas \in EvalEdgeLists :
         host = NewHost(Graph(nodos, aristas), 100)
    /\ algo = NoAlgo
    /\ lastStepResult = NoResult
    /\ ultimoIndiceEnviado = 0
    /\ lastProgressAttempts = -1
    /\ wpc = "eval"
    /\ outbox = <<>>
    /\ burst = NoBurst

NextEval == Evaluate

SpecEval == InitEval /\ [][NextEval]_vars

(***************************************************************************)
(* SpecLocal: one LocalSearch instance on a small coloured live graph,     *)
(* stepped by its caller, which may apply the colours a step returned.     *)
(***************************************************************************)
\* Nodes of the live graph of SpecLocal, and the most edges it has.
LocalNodes == 4
LocalEdges == 3
\* The largest palette of a LocalSearch instance.
LocalPalette == 3

\* The colours the nodes hold when the search starts.
LocalColors == {"blue", "red"}

\* The edge lists Graph.agregarArista can build: no loop, no two edges that
\* join the same nodes; in any order, each edge in either direction.
EdgeLists ==
    {l \in UNION {[1 .. n -> {Edge(a, b) : a, b \in 1 .. LocalNodes}] : n \in 0 .. LocalEdges} :
        /\ \A i \in DOMAIN l : l[i].sourceId # l[i].targetId
        /\ \A i, j \in DOMAIN l : i < j => ~Joins(l[i], l[j].sourceId, l[j].targetId)}

\* The caller invokes step() on the instance.
LocalStep ==
    /\ wpc = "local"
    /\ algo' = LocalSearchStep(algo, host.graph)
    /\ lastStepResult' = obtenerResultadoPaso(LocalSearchStep(algo, host.graph))
    /\ host' = [host EXCEPT !.graph = LocalSearchStepGraph(algo, @)]
    /\ UNCHANGED <<ultimoIndiceEnviado, wpc, outbox, lastProgressAttempts, burst>>

\* The caller applies the colours the last step returned (tick does, after
\* each step).
LocalApply ==
    /\ wpc = "local"
    /\ lastStepResult # NoResult
    /\ ColorMap(host.graph.nodos) # lastStepResult.colors
    /\ host' = applyColoring(host, lastStepResult.colors)
    /\ UNCHANGED <<workerVars, burst>>

InitLocal ==
    /\ \E colors \in [1 .. LocalNodes -> LocalColors] : \E aristas \in EdgeLists :
       \E numColors \in 2 .. LocalPalette :
         /\ host = [NewHost(Graph([i \in 1 .. LocalNodes |-> Node(i, colors[i])], aristas), 100)
                       EXCEPT !.numColors = numColors]
         /\ algo = LocalSearch(Graph([i \in 1 .. LocalNodes |-> Node(i, colors[i])], aristas),
                               numColors)
    /\ lastStepResult = NoResult
    /\ ultimoIndiceEnviado = 0
    /\ lastProgressAttempts = -1
    /\ wpc = "local"
    /\ outbox = <<>>
    /\ burst = NoBurst

NextLocal ==
    \/ LocalStep
    \/ LocalApply

SpecLocal == InitLocal /\ [][NextLocal]_vars

(***************************************************************************)
(* SpecTermination: the behaviours of SpecLocal on smaller graphs in which *)
(* the caller of step() calls it again as long as the search is not done   *)
(* (the pacing interval of the controller, the loop of a test).            *)
(***************************************************************************)
\* Nodes and edges of the graph of SpecTermination.
FairNodes == 3
FairEdges == 3

\* Edge lists agregarArista can build: no loop, no edge twice.
EdgeListsOf(nodes, edges) ==
    {l \in UNION {[1 .. n -> {Edge(a, b) : a, b \in 1 .. nodes}] : n \in 0 .. edges} :
        /\ \A i \in DOMAIN l : l[i].sourceId # l[i].targetId
        /\ \A i, j \in DOMAIN l : i < j => ~Joins(l[i], l[j].sourceId, l[j].targetId)}

InitTermination ==
    /\ \E colors \in [1 .. FairNodes -> LocalColors] :
       \E aristas \in EdgeListsOf(FairNodes, FairEdges) :
       \E numColors \in 2 .. LocalPalette :
         /\ host = [NewHost(Graph([i \in 1 .. FairNodes |-> Node(i, colors[i])], aristas), 100)
                       EXCEPT !.numColors = numColors]
         /\ algo = LocalSearch(Graph([i \in 1 .. FairNodes |-> Node(i, colors[i])], aristas),
                               numColors)
    /\ lastStepResult = NoResult
    /\ ultimoIndiceEnviado = 0
    /\ lastProgressAttempts = -1
    /\ wpc = "local"
    /\ outbox = <<>>
    /\ burst = NoBurst

SpecTermination == InitTermination /\ [][NextLocal]_vars /\ WF_vars(LocalStep)

(***************************************************************************)
(* SpecRecolor: manualRecolor called once on a small graph, coloured in    *)
(* part.                                                                   *)
(***************************************************************************)
\* Nodes and edges of the graph of SpecRecolor and the largest palette.
RecolorNodes == 3
RecolorEdges == 3
RecolorPalette == 3

\* The colours the nodes hold: none, or a colour of the largest palette.
RecolorColors == {NULL} \cup Range(generarPaletaColores(RecolorPalette))

\* Edge lists agregarArista can build: no loop, no edge twice.
RecolorEdgeLists == EdgeListsOf(RecolorNodes, RecolorEdges)

\* The user recolours a node of the canvas with a colour of the palette.
RecolorClick ==
    /\ wpc = "recolor"
    /\ \E nodeId \in 1 .. RecolorNodes + 1 :
       \E newColor \in Range(generarPaletaColores(host.numColors)) :
           /\ lastStepResult' = manualRecolorResult(host, nodeId, newColor)
           /\ host' = manualRecolor(host, nodeId, newColor)
    /\ wpc' = "recolored"
    /\ UNCHANGED <<algo, ultimoIndiceEnviado, outbox, lastProgressAttempts, burst>>

InitRecolor ==
    /\ \E colors \in [1 .. RecolorNodes -> RecolorColors] : \E aristas \in RecolorEdgeLists :
       \E numColors \in 2 .. RecolorPalette :
         host = [NewHost(Graph([i \in 1 .. RecolorNodes |-> Node(i, colors[i])], aristas), 100)
                    EXCEPT !.numColors = numColors, !.metered = FALSE]
    /\ algo = NoAlgo
    /\ lastStepResult = NoResult
    /\ ultimoIndiceEnviado = 0
    /\ lastProgressAttempts = -1
    /\ wpc = "recolor"
    /\ outbox = <<>>
    /\ burst = NoBurst

NextRecolor == RecolorClick

SpecRecolor == InitRecolor /\ [][NextRecolor]_vars

(***************************************************************************)
(* SpecAlgo: one strategy instance on a small graph, driven by step() or   *)
(* by run().                                                               *)
(***************************************************************************)
\* The graphs the strategies are run on: no node, one isolated node, one
\* edge, a path and a triangle.
Graphs ==
    {Graph(<<>>, <<>>),
     Graph(<<1>>, <<>>),
     Graph(<<1, 2>>, <<Edge(1, 2)>>),
     Graph(<<1, 2, 3>>, <<Edge(1, 2), Edge(2, 3)>>),
     Graph(<<1, 2, 3>>, <<Edge(1, 2), Edge(2, 3), Edge(1, 3)>>)}

\* Whether every trial on graph with k colours draws the same colouring.
Deterministic(graph, k) == k = 1 \/ graph.nodos = <<>>

\* The finite caps (maxAttempts, iterations) drawn for graph and k colours.
Caps(graph, k) ==
    (0 .. MaxTrials) \cup
    (IF Deterministic(graph, k)
     THEN {c \in {BATCH_SIZE, BATCH_SIZE + 1, 2 * BATCH_SIZE} : c <= LongRun}
     ELSE {})

\* The start messages the host can post for graph.
StartMessages(graph) ==
    {[type |-> "colorLasVegas",
      data |-> [graph |-> [nodes |-> graph.nodos, edges |-> graph.aristas],
                options |-> [maxAttempts |-> c, numberOfColors |-> k]]] :
        <<k, c>> \in {kc \in (1 .. MaxColors) \X ((0 .. LongRun) \cup {Infinity}) :
                        kc[2] = Infinity \/ kc[2] \in Caps(graph, kc[1])}}
    \cup
    {[type |-> "colorMonteCarlo",
      data |-> [graph |-> [nodes |-> graph.nodos, edges |-> graph.aristas],
                options |-> [iterations |-> c, numberOfColors |-> k]]] :
        <<k, c>> \in {kc \in (1 .. MaxColors) \X (0 .. LongRun) :
                        kc[2] \in Caps(graph, kc[1])}}

InitAlgo ==
    /\ \E graph \in Graphs : \E message \in StartMessages(graph) :
         algo = NewAlgorithm(message)
    /\ lastStepResult = NoResult
    /\ ultimoIndiceEnviado = 0
    /\ lastProgressAttempts = -1
    /\ wpc \in {"direct", "run"}
    /\ outbox = <<>>
    /\ host = NewHost(Graph(<<>>, <<>>), 100)
    /\ burst = NoBurst

NextAlgo ==
    \/ DirectStep
    \/ RunIteration
    \/ PostComplete

SpecAlgo == InitAlgo /\ [][NextAlgo]_vars

(***************************************************************************)
(* Properties of the strategies.                                           *)
(***************************************************************************)
\* The colorComplete messages the worker has posted.
Completed == {outbox[i] : i \in {j \in DOMAIN outbox : outbox[j].type = "colorComplete"}}

\* colors assigns a palette colour to every node of instance a and leaves no
\* edge of a in conflict.
ProperColoring(a, colors) ==
    /\ DOMAIN colors = Range(a.nodes)
    /\ \A n \in Range(a.nodes) : colors[n] \in Range(a.availableColors)
    /\ evaluarColoracion(a.edges, colors).conflicts = 0

\* C8: a LasVegas step returns done only when the best assignment has zero
\* conflicts or attempts equals a finite maxAttempts; with maxAttempts =
\* Infinity every done step, and every colorComplete message, carries an
\* assignment that colours every node and has no conflict edge.
C8_LasVegasTermination ==
    algo.class = "LasVegas" =>
        /\ lastStepResult.done =>
               \/ algo.bestEvaluation.conflicts = 0
               \/ (algo.maxAttempts # Infinity /\ algo.attempts = algo.maxAttempts)
        /\ (algo.maxAttempts = Infinity /\ lastStepResult.done) =>
               /\ ProperColoring(algo, lastStepResult.colors)
               /\ lastStepResult.conflictEdges = <<>>
               /\ lastStepResult.stats.conflicts = 0
        /\ algo.maxAttempts = Infinity =>
               \A m \in Completed :
                   /\ ProperColoring(algo, m.result.colors)
                   /\ m.result.conflictEdges = <<>>

\* An unbounded LasVegas run on a graph with an edge completed after a
\* failed trial.
C8_Witness ==
    /\ algo.class = "LasVegas"
    /\ algo.maxAttempts = Infinity
    /\ algo.edges # <<>>
    /\ algo.attempts >= 2
    /\ Completed # {}

\* C9: in LasVegas a step whose trial has zero conflicts returns done, and a
\* step() called on a finished instance leaves attempts, totalConflicts,
\* successCount, the history and the best assignment unchanged.
C9_FirstSuccessWins ==
    [][algo.class = "LasVegas" =>
          /\ lastStepResult'.currentAttempt.success => lastStepResult'.done
          /\ (lastStepResult.done /\ algo.successCount > 0) =>
                 /\ algo' = algo
                 /\ lastStepResult'.done]_vars

\* step() was called again on a LasVegas instance that had found a success
\* after a failed trial.
C9_Witness ==
    /\ algo.class = "LasVegas"
    /\ wpc = "direct"
    /\ algo.successCount = 1
    /\ algo.attempts >= 2
    /\ lastStepResult.done
    /\ lastStepResult.currentAttempt.success
    /\ Lt(algo.attempts, algo.maxAttempts)

\* C10: a MonteCarlo step returns done only when attempts equals iterations,
\* also after a zero-conflict trial, and after run() attempts equals
\* iterations, as does the attempts count of the colorComplete message.
C10_MonteCarloRunsAllIterations ==
    algo.class = "MonteCarlo" =>
        /\ lastStepResult.done => algo.attempts = algo.iterations
        /\ wpc \in {"returned", "idle"} => algo.attempts = algo.iterations
        /\ \A m \in Completed : m.result.stats.attempts = algo.iterations

\* A MonteCarlo run completed whose first trial had zero conflicts and whose
\* second had not.
C10_Witness ==
    /\ algo.class = "MonteCarlo"
    /\ Completed # {}
    /\ algo.iterations >= 3
    /\ algo.attemptsHistory[1].success
    /\ ~algo.attemptsHistory[2].success

\* The least conflict count of the trials of the history (a non-empty one).
MinConflicts(history) ==
    CHOOSE c \in {history[i].conflicts : i \in DOMAIN history} :
        \A i \in DOMAIN history : c <= history[i].conflicts

\* The result (colors, conflictEdges, stats.conflicts) is that of a colouring
\* a trial of instance a can draw whose conflict count is the least of the
\* trials made so far.
BestOfTrials(a, colors, conflictEdges, conflicts) ==
    /\ conflicts = MinConflicts(a.attemptsHistory)
    /\ colors \in coloracionAleatoria(a.nodes, a.availableColors)
    /\ evaluarColoracion(a.edges, colors) =
           [conflicts |-> conflicts, conflictEdges |-> conflictEdges]

\* C11: once a trial was made, the stats.conflicts a step returns (and the
\* colorComplete message carries) is the least conflict count of all the
\* trials made so far, not that of the last one, and the colors and
\* conflictEdges returned are those of a trial with that many conflicts.
C11_BestIsMinimum ==
    /\ (lastStepResult # NoResult /\ algo.attempts > 0) =>
           BestOfTrials(algo, lastStepResult.colors, lastStepResult.conflictEdges,
                        lastStepResult.stats.conflicts)
    /\ algo.attempts > 0 =>
           \A m \in Completed :
               BestOfTrials(algo, m.result.colors, m.result.conflictEdges,
                            m.result.stats.conflicts)

\* The last trial of a run that completed had more conflicts than the best.
C11_Witness ==
    /\ Completed # {}
    /\ algo.attempts >= 2
    /\ lastStepResult.currentAttempt.conflicts > lastStepResult.stats.conflicts
    /\ lastStepResult.stats.conflicts > 0

\* C12: no step raises bestEvaluation.conflicts, and the best assignment is
\* overwritten exactly when the trial of the step has strictly fewer
\* conflicts than the best so far.
C12_BestNonIncreasing ==
    [][algo.class \in {"LasVegas", "MonteCarlo"} =>
          /\ Ge(algo.bestEvaluation.conflicts, algo'.bestEvaluation.conflicts)
          /\ IF /\ algo'.attempts = algo.attempts + 1
                /\ Lt(lastStepResult'.currentAttempt.conflicts, algo.bestEvaluation.conflicts)
             THEN /\ algo'.bestEvaluation.conflicts = lastStepResult'.currentAttempt.conflicts
                  /\ evaluarColoracion(algo.edges, algo'.bestColors) = algo'.bestEvaluation
             ELSE /\ algo'.bestEvaluation = algo.bestEvaluation
                  /\ algo'.bestColors = algo.bestColors]_vars

\* A third trial improved on the best, after a second that did not.
C12_Witness ==
    /\ algo.attempts = 3
    /\ algo.attemptsHistory[2].conflicts >= algo.attemptsHistory[1].conflicts
    /\ algo.attemptsHistory[3].conflicts < algo.attemptsHistory[1].conflicts
    /\ algo.bestEvaluation.conflicts = algo.attemptsHistory[3].conflicts

\* C13: the history holds one record per attempt, numbered from 1 in order,
\* and a step either leaves attempts and the history unchanged or adds one to
\* attempts and appends one record numbered with the new attempts.
C13_HistoryMatchesAttempts ==
    [][algo.class \in {"LasVegas", "MonteCarlo"} =>
          /\ Len(algo.attemptsHistory) = algo.attempts
          /\ Len(algo'.attemptsHistory) = algo'.attempts
          /\ \/ /\ algo'.attempts = algo.attempts
                /\ algo'.attemptsHistory = algo.attemptsHistory
             \/ /\ algo'.attempts = algo.attempts + 1
                /\ SubSeq(algo'.attemptsHistory, 1, algo.attempts) = algo.attemptsHistory
                /\ algo'.attemptsHistory[algo'.attempts].attemptNumber = algo'.attempts]_vars

\* Two trials in a row had the same conflict count.
C13_Witness ==
    /\ algo.attempts = 3
    /\ Len(algo.attemptsHistory) = 3
    /\ algo.attemptsHistory[2].conflicts = algo.attemptsHistory[3].conflicts
    /\ algo.attemptsHistory[1].conflicts # algo.attemptsHistory[2].conflicts

(***************************************************************************)
(* Properties of the evaluation of a colouring.                            *)
(***************************************************************************)
\* The colour the node of the id holds in the node list (NULL: none, or no
\* such node).
ColorOf(nodos, id) ==
    IF \E i \in DOMAIN nodos : nodos[i].id = id
    THEN (CHOOSE nodo \in Range(nodos) : nodo.id = id).color
    ELSE NULL

\* The indices of the edges whose two ends hold the same colour, not null.
Conflicting(nodos, aristas) ==
    {i \in DOMAIN aristas :
        /\ ColorOf(nodos, aristas[i].sourceId) # NULL
        /\ ColorOf(nodos, aristas[i].sourceId) = ColorOf(nodos, aristas[i].targetId)}

\* edges lists the edges of aristas at the given indices, in their order.
ListsInOrder(edges, aristas, indices) ==
    /\ Len(edges) = Cardinality(indices)
    /\ \E f \in [DOMAIN edges -> indices] :
           /\ \A j, k \in DOMAIN edges : j < k => f[j] < f[k]
           /\ \A j \in DOMAIN edges :
                  edges[j] = Edge(aristas[f[j]].sourceId, aristas[f[j]].targetId)

\* C18: evaluarColoracion returns as conflicts the number of edges whose two
\* ends hold the same non-null colour and as conflictEdges those edges in
\* the order of the edge list, an edge with a null or missing colour at an
\* end is not counted, and obtenerAristasConflicto returns the same edges
\* for the nodes that hold these colours.
C18_EvaluationCounts ==
    wpc = "evaluated" =>
        /\ lastStepResult.evaluation.conflicts =
               Cardinality(Conflicting(host.graph.nodos, host.graph.aristas))
        /\ ListsInOrder(lastStepResult.evaluation.conflictEdges, host.graph.aristas,
                        Conflicting(host.graph.nodos, host.graph.aristas))
        /\ lastStepResult.aristasConflicto = lastStepResult.evaluation.conflictEdges

\* The first and the last of three edges are in conflict; the second joins
\* nodes of the list that hold null.
C18_Witness ==
    /\ wpc = "evaluated"
    /\ Len(host.graph.aristas) = 3
    /\ Conflicting(host.graph.nodos, host.graph.aristas) = {1, 3}
    /\ host.graph.aristas[1] # host.graph.aristas[3]
    /\ ColorOf(host.graph.nodos, host.graph.aristas[2].sourceId) = NULL
    /\ ColorOf(host.graph.nodos, host.graph.aristas[2].targetId) = NULL
    /\ {host.graph.aristas[2].sourceId, host.graph.aristas[2].targetId}
           \subseteq {host.graph.nodos[i].id : i \in DOMAIN host.graph.nodos}

SharedNodes(first, second) ==
    {first.sourceId, first.targetId} \cap {second.sourceId, second.targetId}

\* The colours of the palette that no neighbour of the node holds.
FreeColors(palette, nodeId, aristas, colors) ==
    {c \in Range(palette) : contarConflictosConColor(nodeId, c, aristas, colors) = 0}

\* Scenario D: under the colours the search started with exactly two edges
\* are in conflict, they share the node, and the palette has a colour that
\* no neighbour of the node holds.
ScenarioD(nodeId) ==
    LET conflictEdges == evaluarColoracion(host.graph.aristas,
                                           ColorMap(host.snapshot.nodos)).conflictEdges
    IN /\ Len(conflictEdges) = 2
       /\ nodeId \in SharedNodes(conflictEdges[1], conflictEdges[2])
       /\ FreeColors(algo.colorPalette, nodeId, host.graph.aristas,
                     ColorMap(host.snapshot.nodos)) # {}

\* C19: in scenario D the search ends in its first pass, with the shared
\* node recoloured and both conflicts gone: as long as the run is not done it
\* is in pass 1, and the step that ends it returns done with
\* conflictsReduced = 2, passNumber = 1 and the shared node among the
\* recoloured ones.
C19_ScenarioD ==
    \A nodeId \in 1 .. LocalNodes :
        ScenarioD(nodeId) =>
            /\ algo.passNumber = 1
            /\ algo.done =>
                   /\ algo.initialConflicts - Len(algo.conflictEdges) = 2
                   /\ \E i \in DOMAIN algo.recoloredNodes :
                          algo.recoloredNodes[i].nodeId = nodeId

\* In scenario D the search ended with both conflicts gone by recolouring
\* the shared node alone.
C19_Witness ==
    /\ \E nodeId \in 1 .. LocalNodes :
           /\ ScenarioD(nodeId)
           /\ algo.recoloredNodes # <<>>
           /\ \A i \in DOMAIN algo.recoloredNodes : algo.recoloredNodes[i].nodeId = nodeId
    /\ algo.done
    /\ lastStepResult.done
    /\ lastStepResult.stats.conflictsReduced = 2
    /\ lastStepResult.stats.passNumber = 1

\* The indices of the edges whose two ends hold the same colour, not null,
\* under the colour map.
ConflictIndices(aristas, colors) ==
    {i \in DOMAIN aristas :
        /\ Get(colors, aristas[i].sourceId) # NULL
        /\ Get(colors, aristas[i].sourceId) = Get(colors, aristas[i].targetId)}

\* The nodes that are an end of one of the edges at the indices.
Touching(aristas, indices) ==
    UNION {{aristas[i].sourceId, aristas[i].targetId} : i \in indices}

\* The number of edges that join the node to a node that holds the colour.
ConflictsAt(nodeId, color, aristas, colors) ==
    Cardinality({i \in DOMAIN aristas :
        \/ aristas[i].sourceId = nodeId /\ Get(colors, aristas[i].targetId) = color
        \/ aristas[i].targetId = nodeId /\ Get(colors, aristas[i].sourceId) = color})

\* Whether the work queue of the instance is exhausted.
Exhausted(ls) == ls.currentIndex >= Len(ls.conflictingNodes)

\* C21: on a graph whose colouring has no conflict the first step() returns
\* done = true with stats.attempts = 0, no recolour record and the colours
\* the graph holds, and the instance has recoloured nothing.
C21_ZeroConflictsDone ==
    [][(/\ lastStepResult = NoResult
        /\ lastStepResult' # NoResult
        /\ Conflicting(host.graph.nodos, host.graph.aristas) = {})
           => /\ lastStepResult'.done
              /\ lastStepResult'.stats.attempts = 0
              /\ lastStepResult'.stats.recoloredNodes = <<>>
              /\ lastStepResult'.colors = ColorMap(host.graph.nodos)
              /\ algo'.colors = algo.colors
              /\ algo'.recoloredCount = 0
              /\ algo'.totalRecoloredCount = 0]_vars

\* The first step of a search on a graph with edges and no conflict returned.
C21_Witness ==
    /\ lastStepResult # NoResult
    /\ host.graph.aristas # <<>>
    /\ Conflicting(host.snapshot.nodos, host.graph.aristas) = {}
    /\ lastStepResult.done
    /\ lastStepResult.stats.attempts = 0
    /\ lastStepResult.stats.passNumber = 1

\* What C22 says of a step that processed the node, which held the colour
\* old and holds the colour new after it; count is the recoloured count of
\* the pass before the node was processed.
ProcessedAsClaimed(nodeId, old, new, count) ==
    /\ new \in Range(algo.colorPalette) \cup {old}
    /\ \A c \in Range(algo.colorPalette) \cup {old} :
           ConflictsAt(nodeId, new, host.graph.aristas, algo.colors)
               <= ConflictsAt(nodeId, c, host.graph.aristas, algo.colors)
    /\ new # old => ConflictsAt(nodeId, new, host.graph.aristas, algo.colors)
                        < ConflictsAt(nodeId, old, host.graph.aristas, algo.colors)
    /\ \A id \in DOMAIN algo.colors \ {nodeId} : algo'.colors[id] = algo.colors[id]
    /\ IF new # old
       THEN /\ algo'.recoloredNodes =
                   Append(algo.recoloredNodes,
                          [nodeId |-> nodeId, oldColor |-> old, newColor |-> new])
            /\ algo'.recoloredCount = count + 1
            /\ algo'.totalRecoloredCount = algo.totalRecoloredCount + 1
       ELSE /\ algo'.recoloredNodes = algo.recoloredNodes
            /\ algo'.recoloredCount = count
            /\ algo'.totalRecoloredCount = algo.totalRecoloredCount

\* C22: the node a step processes ends with a colour, of the palette or its
\* own, whose conflict count against the colours of its neighbours is the
\* least; its colour changes only to a colour with strictly fewer conflicts
\* than its own; no other node changes; and a record {nodeId, oldColor,
\* newColor} is appended and the recoloured counters grow by one if and
\* only if the colour changed.
C22_GreedyRecolour ==
    [][(algo' # algo /\ ~algo'.done) =>
           ProcessedAsClaimed(algo'.conflictingNodes[algo'.currentIndex],
                              algo.colors[algo'.conflictingNodes[algo'.currentIndex]],
                              algo'.colors[algo'.conflictingNodes[algo'.currentIndex]],
                              IF algo'.passNumber = algo.passNumber THEN algo.recoloredCount
                              ELSE 0)]_vars

\* The last node of the queue kept its colour on a tie after two nodes were
\* recoloured: the search processed a node whose colour conflicts as often
\* as another colour of the palette.
C22_Witness ==
    /\ algo.totalRecoloredCount = 2
    /\ algo.currentIndex = Len(algo.conflictingNodes)
    /\ algo.currentIndex > 2
    /\ algo.recoloredNodes[2].nodeId # algo.conflictingNodes[algo.currentIndex]
    /\ \E c \in Range(algo.colorPalette) :
           /\ c # algo.colors[algo.conflictingNodes[algo.currentIndex]]
           /\ ConflictsAt(algo.conflictingNodes[algo.currentIndex], c,
                          host.graph.aristas, algo.colors)
                  = ConflictsAt(algo.conflictingNodes[algo.currentIndex],
                                algo.colors[algo.conflictingNodes[algo.currentIndex]],
                                host.graph.aristas, algo.colors)

\* C23: a step sets done exactly when the queue is exhausted and no node was
\* recoloured in the pass or no conflict is left; a step on an exhausted
\* queue that does not end the search starts a pass: passNumber grows by
\* one and the queue becomes the nodes that touch the conflict edges left,
\* each once; a step on a queue that is not exhausted leaves the pass and
\* the queue as they are.
C23_DoneOrNewPass ==
    [][algo' # algo =>
           /\ algo'.done <=>
                  /\ Exhausted(algo)
                  /\ \/ algo.recoloredCount = 0
                     \/ ConflictIndices(host.graph.aristas, algo.colors) = {}
           /\ (Exhausted(algo) /\ ~algo'.done) =>
                  /\ algo'.passNumber = algo.passNumber + 1
                  /\ Range(algo'.conflictingNodes) =
                         Touching(host.graph.aristas,
                                  ConflictIndices(host.graph.aristas, algo.colors))
                  /\ Len(algo'.conflictingNodes) = Cardinality(Range(algo'.conflictingNodes))
           /\ (~Exhausted(algo) \/ algo'.done) =>
                  /\ algo'.passNumber = algo.passNumber
                  /\ algo'.conflictingNodes = algo.conflictingNodes]_vars

\* The search ended in its second pass with a conflict left: the first pass
\* recoloured a node and the second none.
C23_Witness ==
    /\ algo.done
    /\ algo.passNumber = 2
    /\ algo.recoloredCount = 0
    /\ algo.conflictEdges # <<>>

\* The palette colours no neighbour of the node holds in the live graph.
UnusedColors(nodeId) ==
    {color \in Range(generarPaletaColores(host.numColors)) :
        \A other \in DOMAIN ColorMap(host.graph.nodos) :
            (\E i \in DOMAIN host.graph.aristas : Joins(host.graph.aristas[i], nodeId, other))
                => ColorMap(host.graph.nodos)[other] # color}

\* The neighbours of the recoloured node that hold its new colour.
ConflictingNeighbours ==
    {other \in DOMAIN ColorMap(host.graph.nodos) :
        /\ \E i \in DOMAIN host.graph.aristas :
               Joins(host.graph.aristas[i], lastStepResult.nodeId, other)
        /\ ColorMap(host.graph.nodos)[other] = lastStepResult.newColor}

\* manualRecolor has returned its analysis of a recolouring.
Recoloured == wpc = "recolored" /\ lastStepResult # NoResult

\* Every suggestion entry lists exactly the free colours of its node, each
\* once, and canRecolorCount counts the conflicting neighbours with one.
SuggestedSets ==
    /\ \A i \in DOMAIN lastStepResult.recolorSuggestions :
         /\ Range(lastStepResult.recolorSuggestions[i].coloresSugeridos)
                = UnusedColors(lastStepResult.recolorSuggestions[i].idNodo)
         /\ Len(lastStepResult.recolorSuggestions[i].coloresSugeridos)
                = Cardinality(UnusedColors(lastStepResult.recolorSuggestions[i].idNodo))
    /\ lastStepResult.canRecolorCount
           = Cardinality({other \in ConflictingNeighbours : UnusedColors(other) # {}})

\* The nodes the suggestion entries are about, and no node in two entries.
SuggestedFor(nodes) ==
    /\ {lastStepResult.recolorSuggestions[i].idNodo :
            i \in DOMAIN lastStepResult.recolorSuggestions} = nodes
    /\ Len(lastStepResult.recolorSuggestions) = Cardinality(nodes)

\* C24 (amended): manualRecolor emits one suggestion entry per conflicting
\* neighbour that has a free colour, and none for a conflicting neighbour
\* without one; the colour set of an entry is exactly the palette colours not
\* used by any of that neighbour's own neighbours, and canRecolorCount is the
\* number of conflicting neighbours for which this set is non-empty.
C24_SuggestionsForRecolourable ==
    Recoloured =>
        /\ SuggestedSets
        /\ SuggestedFor({other \in ConflictingNeighbours : UnusedColors(other) # {}})

\* A neighbour took the new colour and its own neighbours hold every colour
\* of the palette: it is counted in nodesToRecolor and gets no entry.
C24_Witness ==
    /\ Recoloured
    /\ Cardinality(ConflictingNeighbours) = 1
    /\ lastStepResult.nodesToRecolor = 1
    /\ lastStepResult.recolorSuggestions = <<>>
    /\ lastStepResult.canRecolorCount = 0
    /\ lastStepResult.oldColor # lastStepResult.newColor

\* C24 as stated: one suggestion entry per conflicting neighbour.
C24_EntryPerConflictingNeighbour ==
    Recoloured => SuggestedSets /\ SuggestedFor(ConflictingNeighbours)

\* C25: LocalSearch terminates: repeated step() calls reach done; a step
\* never leaves more conflict edges than it found and one that recolours a
\* node leaves fewer; every result has conflictsReduced >= 0 and a progress
\* in [0, 1].
C25_Terminates ==
    /\ <>[](algo.done)
    /\ [][/\ Len(algo'.conflictEdges) <= Len(algo.conflictEdges)
          /\ algo'.colors # algo.colors =>
                 Len(algo'.conflictEdges) < Len(algo.conflictEdges)]_vars
    /\ [](lastStepResult # NoResult =>
              /\ lastStepResult.stats.conflictsReduced >= 0
              /\ lastStepResult.stats.progress[1] >= 0
              /\ lastStepResult.stats.progress[1] <= lastStepResult.stats.progress[2])

\* The search ended in its second pass after it recoloured a node, with a
\* conflict left.
C25_Witness ==
    /\ algo.done
    /\ lastStepResult.done
    /\ algo.passNumber = 2
    /\ algo.totalRecoloredCount > 0
    /\ lastStepResult.stats.conflicts > 0
    /\ lastStepResult.stats.conflictsReduced > 0

\* C26: when the search is done with conflicts left, no node that touches a
\* conflict edge has a palette colour with fewer conflicts than its own,
\* and the conflictEdges every step returns are the conflict edges of the
\* colours it returns, in the order of the edge list.
C26_LocalOptimum ==
    /\ (algo.done /\ ConflictIndices(host.graph.aristas, algo.colors) # {}) =>
           \A nodeId \in Touching(host.graph.aristas,
                                  ConflictIndices(host.graph.aristas, algo.colors)) :
               \A c \in Range(algo.colorPalette) :
                   ConflictsAt(nodeId, c, host.graph.aristas, algo.colors)
                       >= ConflictsAt(nodeId, algo.colors[nodeId], host.graph.aristas,
                                      algo.colors)
    /\ lastStepResult # NoResult =>
           ListsInOrder(lastStepResult.conflictEdges, host.graph.aristas,
                        ConflictIndices(host.graph.aristas, lastStepResult.colors))

\* The search recoloured a node and ended in a later pass with a conflict
\* left.
C26_Witness ==
    /\ algo.done
    /\ lastStepResult.done
    /\ algo.passNumber > 1
    /\ Len(lastStepResult.conflictEdges) = 1
    /\ algo.totalRecoloredCount > 0

(***************************************************************************)
(* Properties of the throttled notification.                               *)
(***************************************************************************)
\* The deferred notifications that are pending.
PendingNotifications == SelectSeq(host.timers, LAMBDA timer : timer.kind = "notify")

\* C3: any two consecutive deliveries of a snapshot to the listener are at
\* least 50 ms apart.
C3_RateLimit == host.lastGap # -1 => host.lastGap >= NOTIFY_WINDOW

\* C4: a notification deferred inside the window is not dropped: at most one
\* deferred notification is pending, and as long as no snapshot was
\* delivered since a notification was deferred, one is pending.
C4_NeverDropped ==
    /\ Len(PendingNotifications) <= 1
    /\ host.unserved => Len(PendingNotifications) = 1

\* C5: BurstCalls plain notify calls within BurstSpan ms yield at most two
\* delivered snapshots; once the burst is over and no notification is
\* pending, exactly two if a call found the window open (one otherwise), and
\* the last one carries the state the last call left.
C5_BurstYieldsTwo ==
    /\ host.deliveries <= 2
    /\ (burst.calls = BurstCalls /\ host.timers = <<>>) =>
           /\ host.deliveries = IF burst.open THEN 2 ELSE 1
           /\ host.snapshot = getSnapshot(host)
           /\ host.snapshot.coloringStats = BurstStats(BurstCalls)

\* A burst spread over BurstSpan ms whose first call found the window open
\* is over, and its deferred notification has fired.
C5_Witness ==
    /\ burst.calls = BurstCalls
    /\ burst.last - burst.first = BurstSpan
    /\ burst.open
    /\ host.timers = <<>>
    /\ host.deliveries = 2
    /\ host.lastGap >= NOTIFY_DELAY

(***************************************************************************)
(* Properties of the sessions.                                             *)
(***************************************************************************)
\* The pacing timers that are live.
PacingTimers == SelectSeq(host.timers, LAMBDA timer : timer.kind = "tick")

C2_SingleSession ==
    /\ Cardinality(host.workers) <= 1
    /\ Len(PacingTimers) <= 1
    /\ ~(host.workers # {} /\ PacingTimers # <<>>)

\* C6: the final stats of a finished run (isRunning = false, the final
\* attempts and conflicts) the listener was not passed yet are the current
\* coloringStats, and a deferred notification that will deliver them is
\* pending.
C6_FinalUpdateDelivered ==
    host.finalStats # NoStats =>
        /\ host.coloringStats = host.finalStats
        /\ PendingNotifications # <<>>

\* The main thread handles the error message of the worker.
HandlesError ==
    /\ outbox # <<>>
    /\ Head(outbox).type = "error"
    /\ outbox' # outbox
    /\ host'.sessions = host.sessions
    /\ host'.edits = host.edits

\* C15: the error message a run posts is its last message, and once the
\* host has handled the fault, the error message or the error event of the
\* Worker, no Worker is live, workerRunning is false and coloringStats is
\* null.
C15_FaultTearsDown ==
    /\ [](\A i \in DOMAIN outbox : outbox[i].type = "error" => i = Len(outbox) /\ wpc = "idle")
    /\ [][(HandlesError \/ host'.failed \ host.failed # {}) =>
             /\ host'.workers = {}
             /\ ~host'.workerRunning
             /\ host'.coloringStats = NoStats]_vars

\* The host handled the error message of a run whose first progress message
\* it had handled before.
C15_Witness ==
    /\ host.sessions = 1
    /\ host.edits = 0
    /\ host.workers = {}
    /\ host.failed = {}
    /\ ~host.workerRunning
    /\ host.coloringStats = NoStats
    /\ Len(host.attemptsHistory) = BATCH_SIZE
    /\ host.active = 0

\* The main thread handles the colorComplete message of the worker.
HandlesComplete ==
    /\ outbox # <<>>
    /\ Head(outbox).type = "colorComplete"
    /\ outbox' # outbox
    /\ host'.sessions = host.sessions
    /\ host'.edits = host.edits

\* C20: each progress message carries the records appended to the history
\* since the progress message before (all of them in the first), and once
\* the host has handled colorComplete its attemptsHistory is the history of
\* the worker: stats.attempts records, numbered 1, 2, ... in order.
C20_IncrementalHistory ==
    [][/\ (/\ Len(outbox') > Len(outbox)
           /\ outbox'[Len(outbox')].type = "colorProgress") =>
              /\ outbox'[Len(outbox')].newAttempts =
                     SubSeq(algo'.attemptsHistory, ultimoIndiceEnviado + 1,
                            Len(algo'.attemptsHistory))
              /\ ultimoIndiceEnviado' = Len(algo'.attemptsHistory)
       /\ HandlesComplete =>
              /\ host'.attemptsHistory = algo.attemptsHistory
              /\ Len(host'.attemptsHistory) = Head(outbox).result.stats.attempts
              /\ \A i \in DOMAIN host'.attemptsHistory :
                     host'.attemptsHistory[i].attemptNumber = i]_vars

\* The host handled the two progress messages and the colorComplete of a
\* Monte Carlo run of BATCH_SIZE + 1 iterations, and the user did nothing.
C20_Witness ==
    /\ host.sessions = 1
    /\ host.edits = 0
    /\ host.workers = {}
    /\ host.coloringStats # NoStats
    /\ host.coloringStats.algorithm = "Monte Carlo"
    /\ ~host.coloringStats.isRunning
    /\ Len(host.attemptsHistory) = BATCH_SIZE + 1

\* C7: each progress message a run posts carries more attempts than the one
\* before, and the attempts of the stats the listener is passed never
\* decrease within a session.
C7_AttemptsMonotonic ==
    [][/\ (/\ wpc = "run"
           /\ Len(outbox') > Len(outbox)
           /\ outbox'[Len(outbox')].type = "colorProgress") =>
              outbox'[Len(outbox')].attempts > lastProgressAttempts
       /\ host'.seen.session = host.seen.session =>
              host'.seen.attempts >= host.seen.attempts]_vars

\* The listener was passed the stats of the first progress message of a
\* run, and the second is posted.
C7_Witness ==
    /\ host.seen.session = 1
    /\ host.seen.attempts = BATCH_SIZE
    /\ outbox # <<>>
    /\ outbox[1].type = "colorProgress"
    /\ outbox[1].attempts = BATCH_SIZE + 1

(***************************************************************************)
(* Properties of the view.                                                 *)
(***************************************************************************)
\* Whether the options of a message posted to the Worker are a valid
\* configuration.
ValidConfiguration(message) ==
    /\ message.data.options.numberOfColors \in MIN_COLORS .. MAX_COLORS
    /\ message.type = "colorMonteCarlo" => message.data.options.iterations >= 1

\* Whether every node of the graph of a message has an incident edge.
NoIsolatedNode(graph) ==
    \A i \in DOMAIN graph.nodes :
        \E j \in DOMAIN graph.edges : \/ graph.edges[j].sourceId = graph.nodes[i]
                                      \/ graph.edges[j].targetId = graph.nodes[i]

\* C16: no run starts with an invalid configuration: every message posted to
\* the Worker, from a click or from the retry of the colour-increment modal,
\* has a colour count in MIN_COLORS .. MAX_COLORS and, for Monte Carlo, at
\* least one iteration, and every LocalSearch is built with a colour count
\* in that range.
C16_ValidConfiguration ==
    /\ \A i \in DOMAIN host.toWorker : ValidConfiguration(host.toWorker[i].message)
    /\ \A i \in DOMAIN host.timers :
           host.timers[i].kind = "tick" =>
               Len(host.timers[i].data.colorPalette) \in MIN_COLORS .. MAX_COLORS
    /\ host.numColors \in MIN_COLORS .. MAX_COLORS

\* The retry of the modal started a run of Monte Carlo with MAX_COLORS
\* colours, one more than the run that found no solution.
C16_Witness ==
    /\ host.toWorker # <<>>
    /\ host.toWorker[1].session \in host.retries
    /\ host.toWorker[1].message.type = "colorMonteCarlo"
    /\ host.toWorker[1].message.data.options.numberOfColors = MAX_COLORS
    /\ host.modalIncrementoColores.currentColors = MAX_COLORS - 1
    /\ ~host.modalIncrementoColores.isOpen

\* C17: no Las Vegas or Monte Carlo run starts on a graph with an isolated
\* node: the graph of every message posted to the Worker, from a click or
\* from the retry of the colour-increment modal, has an edge at every node.
C17_NoIsolatedStart ==
    \A i \in DOMAIN host.toWorker : NoIsolatedNode(host.toWorker[i].message.data.graph)

\* The retry of the modal started a run on a graph the user edited after the
\* run that found no solution: one of its nodes has no edge.
C17_Witness ==
    /\ host.toWorker # <<>>
    /\ host.toWorker[1].session \in host.retries
    /\ ~NoIsolatedNode(host.toWorker[1].message.data.graph)
    /\ host.edits > 0

(***************************************************************************)
(* Properties of the published state.                                      *)
(***************************************************************************)
\* A session is active: the pacing timer of a local search is pending or
\* the worker runs.
SessionActive ==
    \/ host.workerRunning
    \/ /\ host.dynamicRun # NoRun
       /\ \E i \in DOMAIN host.timers : SameTimer(host.timers[i], host.dynamicRun.timerId)

\* coloringStats is non-null and says a run is in progress.
PublishedRunning == host.coloringStats # NoStats /\ host.coloringStats.isRunning

\* C27: coloringStats is non-null with isRunning = true if and only if a
\* session is active, in every state the host operations reach.
C27_RunningFlagMatches == PublishedRunning <=> SessionActive

\* A worker run is in progress and coloringStats says so.
C27_Witness ==
    /\ host.workerRunning
    /\ PublishedRunning
    /\ host.coloringStats.attempts > 0
    /\ host.edits = 0

\* The step is the deferred call of _handleColorComplete for the given timer
\* and it finds a no-solution callback to invoke.
InvokesNoSolution(timer) ==
    /\ host.onNoSolutionFoundCallback # 0
    /\ host'.timers # host.timers
    /\ host'.timers = clearTimeout(host, timer).timers

\* C28: the no-solution callback a run registered is invoked at most once,
\* only by the deferred call of that run's own completion with conflicts,
\* and with that run's final statistics, however the deferred call
\* interleaves with the start of a later run.
C28_CallbackOfItsRun ==
    [][\A timer \in DueTimers(host, "noSolution") :
           InvokesNoSolution(timer) =>
               /\ timer.session = host.onNoSolutionFoundCallback
               /\ timer.data.conflicts > 0
               /\ host'.modalIncrementoColores.attempts = timer.data.attempts
               /\ host'.modalIncrementoColores.originalOptions = host.callbacks[timer.session]
               /\ host'.onNoSolutionFoundCallback = 0]_vars

\* The only run started ended with a conflict and its callback opened the
\* colour-increment modal with the options of that run.
C28_Witness ==
    /\ host.sessions = 1
    /\ host.modalIncrementoColores.isOpen
    /\ host.modalIncrementoColores.originalOptions = host.callbacks[1]
    /\ host.onNoSolutionFoundCallback = 0
    /\ host.coloringStats # NoStats
    /\ host.coloringStats.session = 1
    /\ host.coloringStats.conflicts > 0
    /\ host.modalIncrementoColores.attempts = host.coloringStats.attempts

\* The ends of the edges of a list.
EndsOf(edges) == {<<edges[i].sourceId, edges[i].targetId>> : i \in DOMAIN edges}

\* C29: the conflictEdges of the snapshot a listener was passed are exactly
\* the edges of the snapshot's graph whose two ends held the same colour, not
\* null, when it was delivered.
C29_SnapshotConsistent ==
    EndsOf(host.snapshot.conflictEdges)
        = {<<host.snapshot.aristas[i].sourceId, host.snapshot.aristas[i].targetId>> :
               i \in Conflicting(host.snapshot.nodos, host.snapshot.aristas)}

\* The listener was passed the result of a run with a conflict, and the
\* conflict edge with it.
C29_Witness ==
    /\ host.snapshot.hasColoredGraph
    /\ host.snapshot.coloringStats # NoStats
    /\ ~host.snapshot.coloringStats.isRunning
    /\ host.snapshot.conflictEdges # <<>>
    /\ C29_SnapshotConsistent

\* C30: subscribe passes the current snapshot to the new listener at once; a
\* listener whose unsubscribe function was called is passed nothing more,
\* not even by a deferred notification set before the call; the call removes
\* that listener alone, and every loop over the listeners passes the
\* snapshot to each listener that stays subscribed.
C30_SubscribeUnsubscribe ==
    [][\A listener \in 1 .. MaxListeners :
           /\ (listener \notin Range(host.listeners) /\ listener \in Range(host'.listeners))
                  => host'.inbox[listener]
                         = Receive(host.inbox[listener], getSnapshot(host'))
           /\ (listener \in host.unsubscribed /\ listener \in host'.unsubscribed)
                  => host'.inbox[listener] = host.inbox[listener]
           /\ (listener \in Range(host.listeners) /\ listener \in host'.unsubscribed)
                  => /\ host'.inbox = host.inbox
                     /\ Range(host'.listeners) = Range(host.listeners) \ {listener}
           /\ (listener \in Range(host.listeners) /\ listener \in Range(host'.listeners)
                 /\ host'.flushes # host.flushes)
                  => host'.inbox[listener]
                         = Receive(host.inbox[listener], getSnapshot(host'))]_vars

\* Listener 1 unsubscribed while a notification was deferred; the deferred
\* notification was then delivered, to listener 2 and not to listener 1.
C30_Witness ==
    /\ 1 \in host.leftPending
    /\ 1 \in host.unsubscribed
    /\ 2 \in Range(host.listeners)
    /\ host.notificacionPendiente = NoTimer
    /\ ~host.unserved
    /\ host.flushes > 0
    /\ host.inbox[2].snapshot = getSnapshot(host)
    /\ host.inbox[1].snapshot # getSnapshot(host)
    /\ host.inbox[1].count > 0

=============================================================================
